---- MODULE Spec2Model ----
(***************************************************************************)
(* Door Monitoring System: the device manager (device_manager.c), the      *)
(* Bluetooth server's connection handling (bluetooth_server.c) and the     *)
(* notification trigger (device_manager.c, main.c).                        *)
(*                                                                         *)
(* Two threads share the DeviceManager: the I/O thread (accept, receive,   *)
(* disconnect, the main loop's notification check) and the heartbeat       *)
(* worker.  Every critical section of the code (a region under             *)
(* manager_mutex or under one device_mutex) is one atomic action; a        *)
(* Device* that a function obtained in one critical section and uses in    *)
(* the next is kept in the thread's locals as a slot index, so the other   *)
(* thread can act in between.                                              *)
(***************************************************************************)
EXTENDS Integers, Sequences, FiniteSets, TLC

\* ------------------------------------------------------------------ bounds
\* Largest build-time MAX_DEVICES considered (config.h sets 10).
MaxCapacity == 2
\* Number of clock advances considered.
MaxTicks == 2

\* Peer hardware addresses and client socket descriptors considered.
Addresses == {"A", "B"}
Handles == {1, 2, 3}

\* ------------------------------------------------------- program constants
HEARTBEAT_TIMEOUT == 60
MIN_FCM_TOKEN_LENGTH == 140
TOKEN_SIZE == 256
BLE_PSM == 4097
MAX_DEVICES == 10
NETWORK_SELECT_TIMEOUT == 5
SUCCESS == 0
ERROR_GENERIC == -1
ERROR_PRIVILEGES == -2
ERROR_HARDWARE_INIT == -4
ERROR_NETWORK == -5
ERROR_INVALID_PARAM == -7

\* The clock advances in steps of one timeout, so that a heartbeat age can be
\* 0, exactly HEARTBEAT_TIMEOUT, or more.
TimeStep == HEARTBEAT_TIMEOUT
StartTime == TimeStep
EndTime == StartTime + MaxTicks * TimeStep

NULL == -1

DoorStates == {"LOCKED", "UNLOCKED", "ERROR"}

\* A token string is its identity and its length; the empty string is NoToken.
NoToken == [id |-> 0, len |-> 0]
\* Token strings peers put on the wire: one of exactly the minimum length, one
\* longer than the token buffer, one too short.
WireTokens == {[id |-> 1, len |-> MIN_FCM_TOKEN_LENGTH],
               [id |-> 2, len |-> TOKEN_SIZE + 44],
               [id |-> 3, len |-> MIN_FCM_TOKEN_LENGTH - 1]}
\* Payloads: bytes that are not JSON, JSON without "fcm_token", JSON with one.
Payloads == {[kind |-> "badjson", token |-> NoToken],
             [kind |-> "notoken", token |-> NoToken]}
            \cup {[kind |-> "token", token |-> t] : t \in WireTokens}

Min(a, b) == IF a < b THEN a ELSE b

\* strncpy(dst, src, TOKEN_SIZE - 1); dst[TOKEN_SIZE - 1] = '\0'
CopyToken(src) == [id |-> src.id, len |-> Min(src.len, TOKEN_SIZE - 1)]

\* strlen(token) > 0
NonEmpty(tok) == tok.len > 0

\* init_device: a cleared slot
ClearedDevice == [mac_address |-> "", fcm_token |-> NoToken,
                  socket_fd |-> -1, last_heartbeat |-> 0]

\* BluetoothServerConfig (socket_reuse_addr only selects a setsockopt whose
\* failure is ignored, and is left out)
NoConfig == [psm |-> 0, max_devices |-> 0, select_timeout_sec |-> 0]

\* the configurations considered: the smallest and the largest one that
\* bluetooth_server_validate_config accepts, and each of them with one field
\* moved just across its limit (psm is a uint16_t, so it cannot exceed 0xFFFF)
SmallestConfig == [psm |-> 4097, max_devices |-> 1, select_timeout_sec |-> 1]
LargestConfig == [psm |-> 65535, max_devices |-> 100, select_timeout_sec |-> 60]
Configs == {SmallestConfig, LargestConfig,
            [SmallestConfig EXCEPT !.psm = 4096],
            [SmallestConfig EXCEPT !.max_devices = 0],
            [SmallestConfig EXCEPT !.select_timeout_sec = 0],
            [LargestConfig EXCEPT !.max_devices = 101],
            [LargestConfig EXCEPT !.select_timeout_sec = 61]}

\* the configuration bluetooth_server_init passes
DefaultConfig == [psm |-> BLE_PSM, max_devices |-> MAX_DEVICES,
                  select_timeout_sec |-> NETWORK_SELECT_TIMEOUT]

\* static BluetoothServer g_bluetooth_server = {0}
ZeroServer == [server_socket |-> 0, config |-> NoConfig, running |-> 0]

\* descriptors that socket() hands out for listening sockets
ListenHandles == {10, 11}

\* the threads pthread_create can hand out for the heartbeat worker
WorkerIds == {1, 2}
\* a thread that was never created, one asleep in the worker's loop, one that
\* read the clock for a sweep, one that returned
NoWorker == [pc |-> "none", t |-> 0]
Sleeping == [pc |-> "sleep", t |-> 0]
Exited == [pc |-> "exited", t |-> 0]

VARIABLES
    maxDevices,               \* MAX_DEVICES of the build
    devices,                  \* manager->devices[0 .. MAX_DEVICES-1]
    device_count,             \* manager->device_count
    last_disconnected_token,  \* manager->last_disconnected_token
    now,                      \* time(NULL)
    boltState,                \* DoorStateDriver's boltState
    openFds,                  \* client sockets open in the process
    io,                       \* the I/O thread: position and locals
    lastOp,                   \* the operation that made the last step, and its result
    lastNotify,               \* what the last step's trigger evaluation did
    lastRemovedToken,         \* history: token of the latest removed record that had one
    server,                   \* the BluetoothServer structure
    listenFds,                \* listening sockets open in the process
    g_system_running,         \* main.c's g_system_running
    manager_running,          \* manager->running
    heartbeat_thread,         \* manager->heartbeat_thread
    workers,                  \* the threads running device_manager_heartbeat_worker
    mainPc,                   \* where the main (controlling) thread is
    exit_code,                \* main's exit_code
    runPc,                    \* where the thread in bluetooth_server_run is
    delivery,                 \* how the latest send_door_close_reminder ended
    joining,                  \* the main thread is inside pthread_join
    manager_mutex,            \* manager->manager_mutex: the thread that holds it
    device_mutex,             \* devices[i].device_mutex: the thread that holds it
    sweep                     \* the worker inside device_manager_check_timeouts

\* a mutex that no thread holds
Unlocked == "free"
\* the worker outside device_manager_check_timeouts
NoSweep == [pc |-> "sleep", i |-> -1, t |-> 0, removed |-> 0]

\* the mutexes and the position of the worker's scan
lockState == <<manager_mutex, device_mutex, sweep>>

\* the process around the device manager and the server: threads and flags
process == <<g_system_running, manager_running, heartbeat_thread, workers, mainPc,
             exit_code, runPc, delivery, joining, manager_mutex, device_mutex, sweep>>

vars == <<maxDevices, devices, device_count, last_disconnected_token, now, boltState,
          openFds, io, lastOp, lastNotify, lastRemovedToken, server, listenFds,
          g_system_running, manager_running, heartbeat_thread, workers, mainPc,
          exit_code, runPc, delivery, joining, manager_mutex, device_mutex, sweep>>

Slots == 0 .. (maxDevices - 1)

IoIdle == [pc |-> "idle", mac |-> "", fd |-> -1, ptr |-> NULL]

\* a call that was given no payload
NoPayload == [kind |-> "none", token |-> NoToken]

\* lastOp: the function that ran, what it returned, how many records it removed,
\* (for a sweep) the clock value it compared with, and the arguments of a direct
\* call: the address, the Device*, the socket and the payload
\* (wait: what select() reported; err: the errno of accept() or of a step of
\* socket creation; bytes: what recv() returned; value: the int returned;
\* evicted: the tokens of the records a sweep removed, in the order it removed
\* them)
Op(name, ret, n) == [op |-> name, ret |-> ret, removed |-> n, t |-> 0, mac |-> "",
                     ptr |-> NULL, fd |-> -1, payload |-> NoPayload,
                     config |-> NoConfig, wait |-> "", err |-> "", bytes |-> 0,
                     value |-> 0, evicted |-> <<>>]

\* the name config.h gives a returned code
RetName(v) ==
    CASE v = SUCCESS -> "SUCCESS"
      [] v = ERROR_GENERIC -> "ERROR_GENERIC"
      [] v = ERROR_PRIVILEGES -> "ERROR_PRIVILEGES"
      [] v = ERROR_HARDWARE_INIT -> "ERROR_HARDWARE_INIT"
      [] v = ERROR_NETWORK -> "ERROR_NETWORK"
      [] v = ERROR_INVALID_PARAM -> "ERROR_INVALID_PARAM"
      [] OTHER -> "VALUE"

\* lastOp of a server function that returned the int v
SrvOp(name, v) == [Op(name, RetName(v), 0) EXCEPT !.value = v]
\* a step that changed no record: a lookup, a failed read, the clock, the door
NoOp == Op("none", "", 0)

\* lastNotify: no trigger evaluation in the step, an evaluation that sent
\* nothing, or the recipient token handed to send_door_close_reminder.
NotEvaluated == [evaluated |-> FALSE, invoked |-> FALSE, recipient |-> NoToken]
Skipped == [evaluated |-> TRUE, invoked |-> FALSE, recipient |-> NoToken]
Sent(tok) == [evaluated |-> TRUE, invoked |-> TRUE, recipient |-> tok]

\* ------------------------------------------------------ pure device manager
\* a lookup by socket that returns the first record whatever its socket
find_by_socket_first(devs, cnt, fd) == IF fd <= 0 \/ cnt = 0 THEN NULL ELSE 0

\* device_manager_find_by_socket: first slot below device_count with that fd
find_by_socket(devs, cnt, fd) ==
    IF fd <= 0 THEN NULL
    ELSE LET hits == {i \in 0 .. (cnt - 1) : devs[i].socket_fd = fd}
         IN IF hits = {} THEN NULL
            ELSE CHOOSE i \in hits : \A j \in hits : i <= j

\* find_by_mac whose loop stops one record early
find_by_mac_skip_last(devs, cnt, mac) ==
    LET hits == {i \in 0 .. (cnt - 2) : devs[i].mac_address = mac}
    IN IF hits = {} THEN NULL
       ELSE CHOOSE i \in hits : \A j \in hits : i <= j

\* device_manager_find_by_mac: first slot below device_count with that address
find_by_mac(devs, cnt, mac) ==
    LET hits == {i \in 0 .. (cnt - 1) : devs[i].mac_address = mac}
    IN IF hits = {} THEN NULL
       ELSE CHOOSE i \in hits : \A j \in hits : i <= j

\* a compaction that clears the last record instead of closing the gap
compact_device_array_truncate(devs, cnt, removed_index) ==
    [i \in DOMAIN devs |-> IF i = cnt - 1 THEN ClearedDevice ELSE devs[i]]

\* compact_device_array: the array after closing the gap at removed_index
\* (the count is decremented by the caller of this operator)
compact_device_array(devs, cnt, removed_index) ==
    [i \in DOMAIN devs |->
        IF i < removed_index THEN devs[i]
        ELSE IF i < cnt - 1 THEN devs[i + 1]
        ELSE IF i = cnt - 1 THEN ClearedDevice
        ELSE devs[i]]

\* the capacity check with > for >=
CapacityReached_gt(cnt, max) == cnt > max

\* the capacity check against a literal instead of MAX_DEVICES
CapacityReached_literal(cnt, max) == cnt >= 10

\* the capacity check of device_manager_add_device
CapacityReached(cnt, max) == cnt >= max

\* the capacity test with <= for <
has_capacity_le(cnt, max) == cnt <= max

\* device_manager_has_capacity
has_capacity(cnt, max) == cnt < max

\* a new record whose heartbeat is left at 0 instead of the time of the call
NewDevice_no_stamp(mac, fd, t) ==
    [mac_address |-> mac, fcm_token |-> NoToken, socket_fd |-> fd, last_heartbeat |-> 0]

\* the record device_manager_add_device writes into the next free slot
NewDevice(mac, fd, t) ==
    [mac_address |-> mac, fcm_token |-> NoToken, socket_fd |-> fd, last_heartbeat |-> t]

\* a reconnection that re-initialises the record as a new one
ReconnectedDevice_reset(d, fd, t) ==
    [mac_address |-> d.mac_address, fcm_token |-> NoToken,
     socket_fd |-> fd, last_heartbeat |-> t]

\* the record after device_manager_reconnect_device
ReconnectedDevice(d, fd, t) == [d EXCEPT !.socket_fd = fd, !.last_heartbeat = t]

\* a capture without the strlen test
CaptureToken_always(last, tok) == CopyToken(tok)

\* a capture that keeps the first token it saved
CaptureToken_first(last, tok) ==
    IF NonEmpty(last) THEN last ELSE IF NonEmpty(tok) THEN CopyToken(tok) ELSE last

\* "Save FCM token": last_disconnected_token after a record with token tok goes
CaptureToken(last, tok) == IF NonEmpty(tok) THEN CopyToken(tok) ELSE last

\* the timeout test with >= for >
IsExpired_ge(t, heartbeat) == t - heartbeat >= HEARTBEAT_TIMEOUT

\* the timeout test of device_manager_check_timeouts
IsExpired(t, heartbeat) == t - heartbeat > HEARTBEAT_TIMEOUT

\* the gates without the door state
TriggerFires_nodoor(cnt, tok, door) == cnt = 0 /\ NonEmpty(tok)

\* check_and_send_notification: the three gates
TriggerFires(cnt, tok, door) == cnt = 0 /\ NonEmpty(tok) /\ door = "UNLOCKED"

\* the outcome of one trigger evaluation
Evaluate(cnt, tok, door) == IF TriggerFires(cnt, tok, door) THEN Sent(tok) ELSE Skipped

\* the length test with > for >=
TokenAfterPayload_gt(old, payload) ==
    IF payload.kind = "token" /\ payload.token.len > MIN_FCM_TOKEN_LENGTH
    THEN CopyToken(payload.token)
    ELSE old

\* the token a payload leaves in a record that held `old`
TokenAfterPayload(old, payload) ==
    IF payload.kind = "token" /\ payload.token.len >= MIN_FCM_TOKEN_LENGTH
    THEN CopyToken(payload.token)
    ELSE old

\* close(fd) of a record's socket when it is > 0
ClosedBy(d) == IF d.socket_fd > 0 THEN {d.socket_fd} ELSE {}

\* the scan of device_manager_check_timeouts from slot i down to slot 0
RECURSIVE SweepFrom(_, _, _)
SweepFrom(i, t, st) ==
    IF i < 0 THEN st
    ELSE LET d == st.devices[i]
         IN IF IsExpired(t, d.last_heartbeat)
            THEN SweepFrom(i - 1, t,
                    [devices |-> compact_device_array(st.devices, st.device_count, i),
                     device_count |-> st.device_count - 1,
                     last |-> CaptureToken(st.last, d.fcm_token),
                     removed |-> Append(st.removed, d.fcm_token),
                     closed |-> st.closed \cup ClosedBy(d)])
            ELSE SweepFrom(i - 1, t, st)

TypeOK ==
    /\ maxDevices \in 1 .. MaxCapacity
    /\ device_count \in 0 .. maxDevices
    /\ DOMAIN devices = Slots
    /\ now \in StartTime .. EndTime
    /\ boltState \in DoorStates
    /\ openFds \subseteq Handles
    /\ listenFds \subseteq ListenHandles
    /\ server.running \in {0, 1}

Init ==
    /\ maxDevices \in 1 .. MaxCapacity
    /\ devices = [i \in 0 .. (maxDevices - 1) |-> ClearedDevice]
    /\ device_count = 0
    /\ last_disconnected_token = NoToken
    /\ now = StartTime
    /\ boltState = "ERROR"
    /\ openFds = {}
    /\ io = IoIdle
    /\ lastOp = Op("init", "SUCCESS", 0)
    /\ lastNotify = NotEvaluated
    /\ lastRemovedToken = NoToken
    /\ server = [server_socket |-> 10, config |-> DefaultConfig, running |-> 1]
    /\ listenFds = {10}
    /\ g_system_running = 1
    /\ manager_running = 1
    /\ heartbeat_thread = 1
    /\ workers = [w \in WorkerIds |-> IF w = 1 THEN Sleeping ELSE NoWorker]
    /\ mainPc = "loop"
    /\ exit_code = 0
    /\ runPc = "idle"
    /\ delivery = "none"
    /\ joining = FALSE
    /\ manager_mutex = Unlocked
    /\ device_mutex = [i \in 0 .. (maxDevices - 1) |-> Unlocked]
    /\ sweep = NoSweep

\* what the environment steps leave alone
registry == <<devices, device_count, last_disconnected_token, lastRemovedToken>>

\* ------------------------------------------- device manager critical sections
\* device_manager_add_device(manager, mac, fd), under manager_mutex
AddFails(fd) == fd <= 0 \/ CapacityReached(device_count, maxDevices)

device_manager_add_device(mac, fd) ==
    /\ devices' = [devices EXCEPT ![device_count] = NewDevice(mac, fd, now)]
    /\ device_count' = device_count + 1
    /\ UNCHANGED <<last_disconnected_token, lastRemovedToken>>

\* device_manager_reconnect_device(manager, &devices[p], fd), under that slot's
\* device_mutex only
device_manager_reconnect_device(p, fd) ==
    /\ devices' = [devices EXCEPT ![p] = ReconnectedDevice(devices[p], fd, now)]
    /\ openFds' = (openFds \cup {fd}) \ ClosedBy(devices[p])
    /\ UNCHANGED <<device_count, last_disconnected_token, lastRemovedToken>>

\* an index search that settles on the first record
IndexOf_first(device) == IF device_count > 0 THEN 0 ELSE -1

\* the index search of device_manager_remove_device: pointer equality with a
\* slot below device_count
IndexOf(device) == IF device \in 0 .. (device_count - 1) THEN device ELSE -1

\* device_manager_remove_device(manager, &devices[p]) when the record is found:
\* capture the token, close the socket, compact, evaluate the trigger
device_manager_remove_device(p) ==
    LET d == devices[p]
        captured == CaptureToken(last_disconnected_token, d.fcm_token)
    IN /\ last_disconnected_token' = captured
       /\ openFds' = openFds \ ClosedBy(d)
       /\ devices' = compact_device_array(devices, device_count, p)
       /\ device_count' = device_count - 1
       /\ lastNotify' = Evaluate(device_count - 1, captured, boltState)
       /\ lastRemovedToken' = IF NonEmpty(d.fcm_token) THEN d.fcm_token
                              ELSE lastRemovedToken

\* the record after device_manager_process_data handled a payload at time t
DeviceAfterPayload(d, payload, t) ==
    [d EXCEPT !.fcm_token = TokenAfterPayload(d.fcm_token, payload),
              !.last_heartbeat = t]

\* device_manager_process_data after the lookup, under the slot's device_mutex
device_manager_process_data(p, payload) ==
    /\ devices' = [devices EXCEPT ![p] = DeviceAfterPayload(devices[p], payload, now)]
    /\ UNCHANGED <<device_count, last_disconnected_token, lastRemovedToken>>

\* the latest non-empty token of a removal sequence, or `old` when there is none
RECURSIVE LatestToken(_, _)
LatestToken(removed, old) ==
    IF removed = <<>> THEN old
    ELSE LET t == removed[Len(removed)]
         IN IF NonEmpty(t) THEN t
            ELSE LatestToken(SubSeq(removed, 1, Len(removed) - 1), old)

\* a sweep that examines the last record only
device_manager_check_timeouts_last(t) ==
    LET i == device_count - 1
        hit == i >= 0 /\ IsExpired(t, devices[i].last_heartbeat)
        last == IF hit THEN CaptureToken(last_disconnected_token, devices[i].fcm_token)
                ELSE last_disconnected_token
    IN /\ devices' = IF hit THEN compact_device_array(devices, device_count, i) ELSE devices
       /\ device_count' = IF hit THEN device_count - 1 ELSE device_count
       /\ last_disconnected_token' = last
       /\ openFds' = IF hit THEN openFds \ ClosedBy(devices[i]) ELSE openFds
       /\ lastNotify' = IF hit THEN Evaluate(device_count - 1, last, boltState)
                        ELSE NotEvaluated
       /\ lastRemovedToken' = IF hit /\ NonEmpty(devices[i].fcm_token)
                              THEN devices[i].fcm_token ELSE lastRemovedToken
       /\ lastOp' = [Op("check_timeouts", "DONE", IF hit THEN 1 ELSE 0) EXCEPT !.t = t]

\* device_manager_check_timeouts with its `now` read at time t, under manager_mutex
device_manager_check_timeouts(t) ==
    LET st == SweepFrom(device_count - 1, t,
                        [devices |-> devices, device_count |-> device_count,
                         last |-> last_disconnected_token,
                         removed |-> <<>>, closed |-> {}])
        removed_count == Len(st.removed)
    IN /\ devices' = st.devices
       /\ device_count' = st.device_count
       /\ last_disconnected_token' = st.last
       /\ openFds' = openFds \ st.closed
       /\ lastNotify' = IF removed_count > 0
                        THEN Evaluate(st.device_count, st.last, boltState)
                        ELSE NotEvaluated
       /\ lastRemovedToken' = LatestToken(st.removed, lastRemovedToken)
       /\ lastOp' = [Op("check_timeouts", "DONE", removed_count)
                       EXCEPT !.t = t, !.evicted = st.removed]

\* ------------------------------------------------------------ the I/O thread
\* accept() returns the lowest-numbered descriptor that is not open
LowestFree(open) == CHOOSE fd \in Handles \ open : \A g \in Handles \ open : fd <= g

\* bluetooth_server_accept_connection: accept() and the lookup by address
AcceptConnection ==
    /\ io.pc = "idle"
    /\ Handles \ openFds # {}
    /\ \E mac \in Addresses :
          LET fd == LowestFree(openFds)
              existing == find_by_mac(devices, device_count, mac)
          IN /\ openFds' = openFds \cup {fd}
             /\ io' = [pc |-> IF existing # NULL THEN "reconnect" ELSE "capacity",
                       mac |-> mac, fd |-> fd, ptr |-> existing]
    /\ lastOp' = NoOp
    /\ lastNotify' = NotEvaluated
    /\ UNCHANGED <<process, maxDevices, server, listenFds, registry, now, boltState>>

\* ... the reconnection branch
AcceptReconnect ==
    /\ io.pc = "reconnect"
    /\ device_manager_reconnect_device(io.ptr, io.fd)
    /\ io' = IoIdle
    /\ lastOp' = Op("reconnect", "SUCCESS", 0)
    /\ lastNotify' = NotEvaluated
    /\ UNCHANGED <<process, maxDevices, server, listenFds, now, boltState>>

\* ... device_manager_has_capacity, and the rejection when full
AcceptCheckCapacity ==
    /\ io.pc = "capacity"
    /\ IF has_capacity(device_count, maxDevices)
       THEN /\ io' = [io EXCEPT !.pc = "add"]
            /\ lastOp' = NoOp
            /\ UNCHANGED openFds
       ELSE /\ io' = IoIdle
            /\ openFds' = openFds \ {io.fd}
            /\ lastOp' = Op("accept", "ERROR_CAPACITY_EXCEEDED", 0)
    /\ lastNotify' = NotEvaluated
    /\ UNCHANGED <<process, maxDevices, server, listenFds, registry, now, boltState>>

\* ... device_manager_add_device, and close(client_socket) when it fails
AcceptAdd ==
    /\ io.pc = "add"
    /\ IF AddFails(io.fd)
       THEN /\ openFds' = openFds \ {io.fd}
            /\ lastOp' = Op("accept", "ERROR_GENERIC", 0)
            /\ UNCHANGED registry
       ELSE /\ device_manager_add_device(io.mac, io.fd)
            /\ lastOp' = [Op("add", "SUCCESS", 0) EXCEPT !.mac = io.mac]
            /\ UNCHANGED openFds
    /\ io' = IoIdle
    /\ lastNotify' = NotEvaluated
    /\ UNCHANGED <<process, maxDevices, server, listenFds, now, boltState>>

\* bluetooth_server_receive_data: recv(), and for a non-empty read the lookup by
\* socket of device_manager_process_data.  The bytes read stay in the receive
\* buffer until the update uses them, so the payload is drawn there.
ReceiveData ==
    /\ io.pc = "idle"
    /\ \E fd \in Handles :
       \E got \in IF fd \in openFds THEN {"error", "zero", "data"} ELSE {"error"} :
          LET device == find_by_socket(devices, device_count, fd)
          IN IF got = "data" /\ device # NULL
             THEN io' = [pc |-> "data", mac |-> "", fd |-> fd, ptr |-> device]
             ELSE UNCHANGED io
    /\ lastOp' = NoOp
    /\ lastNotify' = NotEvaluated
    /\ UNCHANGED <<process, maxDevices, server, listenFds, registry, now, boltState, openFds>>

\* ... the update of the record under its device_mutex
ProcessDataUpdate ==
    /\ io.pc = "data"
    /\ \E payload \in Payloads : device_manager_process_data(io.ptr, payload)
    /\ io' = IoIdle
    /\ lastOp' = Op("process_data", "SUCCESS", 0)
    /\ lastNotify' = NotEvaluated
    /\ UNCHANGED <<process, maxDevices, server, listenFds, now, boltState, openFds>>

\* bluetooth_server_handle_disconnect -> device_manager_handle_disconnect: the
\* lookup by socket
HandleDisconnect ==
    /\ io.pc = "idle"
    /\ \E fd \in Handles :
          LET device == find_by_socket(devices, device_count, fd)
          IN IF device = NULL
             THEN UNCHANGED io
             ELSE io' = [pc |-> "remove", mac |-> "", fd |-> fd, ptr |-> device]
    /\ lastOp' = NoOp
    /\ lastNotify' = NotEvaluated
    /\ UNCHANGED <<process, maxDevices, server, listenFds, registry, now, boltState, openFds>>

\* ... device_manager_remove_device on the record found
DisconnectRemove ==
    /\ io.pc = "remove"
    /\ IF IndexOf(io.ptr) = -1
       THEN /\ lastOp' = Op("remove", "ERROR_GENERIC", 0)
            /\ lastNotify' = NotEvaluated
            /\ UNCHANGED <<registry, openFds>>
       ELSE /\ device_manager_remove_device(IndexOf(io.ptr))
            /\ lastOp' = Op("remove", "SUCCESS", 1)
    /\ io' = IoIdle
    /\ UNCHANGED <<process, maxDevices, server, listenFds, now, boltState>>

\* check_door_notification of main.c: no device, a token, the door unlocked
DoorNotificationFires(cnt, tok, door) ==
    ~(cnt > 0) /\ NonEmpty(tok) /\ door = "UNLOCKED"

\* main's event loop: check_door_notification() after each server iteration
CheckDoorNotification ==
    /\ io.pc = "idle"
    /\ lastNotify' = IF DoorNotificationFires(device_count, last_disconnected_token, boltState)
                     THEN Sent(last_disconnected_token)
                     ELSE Skipped
    /\ lastOp' = Op("check_door_notification", "DONE", 0)
    /\ UNCHANGED <<process, maxDevices, server, listenFds, registry, now, boltState, openFds, io>>

\* ------------------------------------------------------ the heartbeat worker
\* One cycle of device_manager_heartbeat_worker.  device_manager_check_timeouts
\* reads the clock before it waits for manager_mutex, so the value it compares
\* with is the clock of now or of an earlier moment.
ClockReadings == {StartTime + k * TimeStep : k \in 0 .. MaxTicks}

SweepCycle ==
    /\ \E t \in {r \in ClockReadings : r <= now /\ r >= now - TimeStep} :
          device_manager_check_timeouts(t)
    /\ UNCHANGED <<process, maxDevices, server, listenFds, now, boltState, io>>

\* ---------------------------------------------------------- the environment
Tick ==
    /\ now < EndTime
    /\ now' = now + TimeStep
    /\ lastOp' = NoOp
    /\ lastNotify' = NotEvaluated
    /\ UNCHANGED <<process, maxDevices, server, listenFds, registry, boltState, openFds, io>>

\* the door sensor's interrupt handler sets boltState
DoorInterrupt ==
    /\ \E s \in DoorStates \ {boltState} : boltState' = s
    /\ lastOp' = NoOp
    /\ lastNotify' = NotEvaluated
    /\ UNCHANGED <<process, maxDevices, server, listenFds, registry, now, openFds, io>>

Next ==
    \/ AcceptConnection
    \/ AcceptReconnect
    \/ AcceptCheckCapacity
    \/ AcceptAdd
    \/ ReceiveData
    \/ ProcessDataUpdate
    \/ HandleDisconnect
    \/ DisconnectRemove
    \/ CheckDoorNotification
    \/ SweepCycle
    \/ Tick
    \/ DoorInterrupt

Spec == Init /\ [][Next]_vars

\* ------------------------------------------- the device manager called directly
\* A single-threaded caller of device_manager.h: every function, in any order.
\* device_manager_remove_device is given any slot of the array as its Device*,
\* device_manager_reconnect_device an existing device, as its contract asks.
ApiAddDevice ==
    /\ Handles \ openFds # {}
    /\ \E mac \in Addresses :
          LET fd == LowestFree(openFds)
          IN IF AddFails(fd)
             THEN /\ lastOp' = [Op("add", "NULL", 0) EXCEPT !.mac = mac]
                  /\ UNCHANGED <<registry, openFds>>
             ELSE /\ device_manager_add_device(mac, fd)
                  /\ openFds' = openFds \cup {fd}
                  /\ lastOp' = [Op("add", "SUCCESS", 0) EXCEPT !.mac = mac]
    /\ lastNotify' = NotEvaluated
    /\ UNCHANGED <<process, maxDevices, server, listenFds, now, boltState, io>>

ApiRemoveDevice ==
    /\ \E p \in Slots :
          IF IndexOf(p) = -1
          THEN /\ lastOp' = [Op("remove", "ERROR_GENERIC", 0) EXCEPT !.ptr = p]
               /\ lastNotify' = NotEvaluated
               /\ UNCHANGED <<registry, openFds>>
          ELSE /\ device_manager_remove_device(IndexOf(p))
               /\ lastOp' = [Op("remove", "SUCCESS", 1) EXCEPT !.ptr = p]
    /\ UNCHANGED <<process, maxDevices, server, listenFds, now, boltState, io>>

ApiReconnectDevice ==
    /\ Handles \ openFds # {}
    /\ \E p \in 0 .. (device_count - 1) :
          device_manager_reconnect_device(p, LowestFree(openFds))
    /\ lastOp' = Op("reconnect", "SUCCESS", 0)
    /\ lastNotify' = NotEvaluated
    /\ UNCHANGED <<process, maxDevices, server, listenFds, now, boltState, io>>

ApiProcessData ==
    /\ \E fd \in Handles :
          LET device == find_by_socket(devices, device_count, fd)
          IN IF device = NULL
             THEN /\ lastOp' = Op("process_data", "ERROR_GENERIC", 0)
                  /\ UNCHANGED registry
             ELSE /\ \E payload \in Payloads : device_manager_process_data(device, payload)
                  /\ lastOp' = Op("process_data", "SUCCESS", 0)
    /\ lastNotify' = NotEvaluated
    /\ UNCHANGED <<process, maxDevices, server, listenFds, now, boltState, openFds, io>>

ApiHandleDisconnect ==
    /\ \E fd \in Handles :
          LET device == find_by_socket(devices, device_count, fd)
          IN IF device = NULL
             THEN /\ lastOp' = Op("handle_disconnect", "ERROR_GENERIC", 0)
                  /\ lastNotify' = NotEvaluated
                  /\ UNCHANGED <<registry, openFds>>
             ELSE /\ device_manager_remove_device(IndexOf(device))
                  /\ lastOp' = [Op("remove", "SUCCESS", 1) EXCEPT !.ptr = device]
    /\ UNCHANGED <<process, maxDevices, server, listenFds, now, boltState, io>>

ApiCheckTimeouts ==
    /\ device_manager_check_timeouts(now)
    /\ UNCHANGED <<process, maxDevices, server, listenFds, now, boltState, io>>

NextApi ==
    \/ ApiAddDevice
    \/ ApiRemoveDevice
    \/ ApiReconnectDevice
    \/ ApiProcessData
    \/ ApiHandleDisconnect
    \/ ApiCheckTimeouts
    \/ Tick

SpecApi == Init /\ [][NextApi]_vars

\* ------------------------------------------------ payloads of connected peers
\* Peers are registered and payloads arrive, for their sockets and for sockets
\* of no record, while the clock runs; each call of
\* device_manager_process_data is observed with its arguments.
PayloadProcessData ==
    /\ \E fd \in Handles :
          LET device == find_by_socket(devices, device_count, fd)
          IN IF device = NULL
             THEN /\ lastOp' = [Op("process_data", "ERROR_GENERIC", 0) EXCEPT !.fd = fd]
                  /\ UNCHANGED registry
             ELSE \E payload \in Payloads :
                     /\ device_manager_process_data(device, payload)
                     /\ lastOp' = [Op("process_data", "SUCCESS", 0)
                                      EXCEPT !.fd = fd, !.payload = payload]
    /\ lastNotify' = NotEvaluated
    /\ UNCHANGED <<process, maxDevices, server, listenFds, now, boltState, openFds, io>>

NextPayload ==
    \/ ApiAddDevice
    \/ PayloadProcessData
    \/ Tick

SpecPayload == Init /\ [][NextPayload]_vars

\* ------------------------------------------- the Bluetooth server called directly
\* A single-threaded caller of bluetooth_server.h on the static, zeroed
\* BluetoothServer of main.c, with no heartbeat worker running: every function
\* runs from its entry to its return in one step.
InitServer ==
    /\ maxDevices \in 1 .. MaxCapacity
    /\ devices = [i \in 0 .. (maxDevices - 1) |-> ClearedDevice]
    /\ device_count = 0
    /\ last_disconnected_token = NoToken
    /\ now = StartTime
    /\ boltState = "ERROR"
    /\ openFds = {}
    /\ io = IoIdle
    /\ lastOp = Op("init", "SUCCESS", 0)
    /\ lastNotify = NotEvaluated
    /\ lastRemovedToken = NoToken
    /\ server = ZeroServer
    /\ listenFds = {}
    /\ g_system_running = 1
    /\ manager_running = 0
    /\ heartbeat_thread = NULL
    /\ workers = [w \in WorkerIds |-> NoWorker]
    /\ mainPc = "idle"
    /\ exit_code = 0
    /\ runPc = "idle"
    /\ delivery = "none"
    /\ joining = FALSE
    /\ manager_mutex = Unlocked
    /\ device_mutex = [i \in 0 .. (maxDevices - 1) |-> Unlocked]
    /\ sweep = NoSweep

\* a validation that tests the psm only
validate_config_psm_only(config) ==
    IF config.psm < 4097 \/ config.psm > 65535 THEN ERROR_INVALID_PARAM ELSE SUCCESS

\* bluetooth_server_validate_config
validate_config(config) ==
    IF config.psm < 4097 \/ config.psm > 65535 THEN ERROR_INVALID_PARAM
    ELSE IF config.max_devices < 1 \/ config.max_devices > 100 THEN ERROR_INVALID_PARAM
    ELSE IF config.select_timeout_sec < 1 \/ config.select_timeout_sec > 60
         THEN ERROR_INVALID_PARAM
    ELSE SUCCESS

\* bluetooth_server_init_with_config(server, device_manager, config)
init_with_config(config) ==
    LET result == validate_config(config)
    IN /\ IF result # SUCCESS
          THEN UNCHANGED server
          ELSE server' = [server_socket |-> -1, config |-> config, running |-> 0]
       /\ lastOp' = [SrvOp("init_with_config", result) EXCEPT !.config = config]

\* bluetooth_server_init: the configuration of config.h
ServerInit ==
    /\ init_with_config(DefaultConfig)
    /\ lastNotify' = NotEvaluated
    /\ UNCHANGED <<process, maxDevices, registry, now, boltState, openFds, io, listenFds>>

ServerInitWithConfig ==
    /\ \E config \in Configs : init_with_config(config)
    /\ lastNotify' = NotEvaluated
    /\ UNCHANGED <<process, maxDevices, registry, now, boltState, openFds, io, listenFds>>

\* socket() returns the lowest-numbered descriptor that is not open
LowestFreeListen(open) ==
    CHOOSE fd \in ListenHandles \ open : \A g \in ListenHandles \ open : fd <= g

\* what can happen in bluetooth_server_create_socket: socket() fails, bind()
\* fails, listen() fails, or all succeed
CreateOutcomes(open) ==
    IF ListenHandles \ open = {} THEN {"socket"} ELSE {"socket", "bind", "listen", "ok"}

\* bluetooth_server_create_socket: server_socket, the listening sockets open in
\* the process and the result, for each outcome
create_socket(outcome, open) ==
    IF outcome = "ok"
    THEN [server_socket |-> LowestFreeListen(open),
          open |-> open \cup {LowestFreeListen(open)}, result |-> SUCCESS]
    ELSE [server_socket |-> -1, open |-> open, result |-> ERROR_HARDWARE_INIT]

ServerCreateSocket ==
    /\ \E outcome \in CreateOutcomes(listenFds) :
          LET r == create_socket(outcome, listenFds)
          IN /\ server' = [server EXCEPT !.server_socket = r.server_socket]
             /\ listenFds' = r.open
             /\ lastOp' = [SrvOp("create_socket", r.result) EXCEPT !.err = outcome]
    /\ lastNotify' = NotEvaluated
    /\ UNCHANGED <<process, maxDevices, registry, now, boltState, openFds, io>>

\* bluetooth_server_start: create the socket if there is none, then running = 1
ServerStart ==
    /\ IF server.server_socket < 0
       THEN \E outcome \in CreateOutcomes(listenFds) :
               LET r == create_socket(outcome, listenFds)
               IN /\ server' = [server EXCEPT
                                  !.server_socket = r.server_socket,
                                  !.running = IF r.result # SUCCESS THEN @ ELSE 1]
                  /\ listenFds' = r.open
                  /\ lastOp' = [SrvOp("start", r.result) EXCEPT !.err = outcome]
       ELSE /\ server' = [server EXCEPT !.running = 1]
            /\ lastOp' = SrvOp("start", SUCCESS)
            /\ UNCHANGED listenFds
    /\ lastNotify' = NotEvaluated
    /\ UNCHANGED <<process, maxDevices, registry, now, boltState, openFds, io>>

\* bluetooth_server_stop: the structure afterwards, and the socket it closes
StoppedServer(srv) ==
    IF srv.running = 0 THEN srv
    ELSE [srv EXCEPT !.running = 0, !.server_socket = -1]

\* a stop that clears the field and leaves the descriptor open
ClosedByStop_leak(srv) == {}

ClosedByStop(srv) ==
    IF srv.running # 0 /\ srv.server_socket >= 0 THEN {srv.server_socket} ELSE {}

ServerStop ==
    /\ server' = StoppedServer(server)
    /\ listenFds' = listenFds \ ClosedByStop(server)
    /\ lastOp' = Op("stop", "DONE", 0)
    /\ lastNotify' = NotEvaluated
    /\ UNCHANGED <<process, maxDevices, registry, now, boltState, openFds, io>>

\* bluetooth_server_cleanup: stop, then memset and server_socket = -1
ServerCleanup ==
    /\ server' = [ZeroServer EXCEPT !.server_socket = -1]
    /\ listenFds' = listenFds \ ClosedByStop(server)
    /\ lastOp' = Op("cleanup", "DONE", 0)
    /\ lastNotify' = NotEvaluated
    /\ UNCHANGED <<process, maxDevices, registry, now, boltState, openFds, io>>

\* what select() can report: interrupted, failed, timed out, socket readable
WaitOutcomes == {"EINTR", "EBADF", "timeout", "ready"}

\* an iteration that hands a failure of bluetooth_server_accept_connection on
RunOnceResult_propagates(wait, accepted) ==
    IF wait = "EINTR" THEN 0
    ELSE IF wait = "timeout" THEN 1
    ELSE IF wait # "ready" THEN ERROR_NETWORK
    ELSE IF accepted < 0 THEN accepted ELSE 0

\* what bluetooth_server_run_once returns after select() reported `wait` and,
\* for a readable socket, bluetooth_server_accept_connection returned `accepted`
RunOnceResult(wait, accepted) ==
    IF wait = "EINTR" THEN 0
    ELSE IF wait = "timeout" THEN 1
    ELSE IF wait # "ready" THEN ERROR_NETWORK
    ELSE 0

\* errno of a failed accept(): would block, interrupted, or another failure
AcceptErrnos == {"EAGAIN", "EINTR", "ECONNABORTED"}

\* accept() can deliver a connection when the server socket is a listening
\* socket and a descriptor is free
AcceptOutcomes ==
    AcceptErrnos \cup
        (IF server.server_socket \in listenFds /\ Handles \ openFds # {}
         THEN {"none"} ELSE {})

\* bluetooth_server_accept_connection after accept() returned fd for peer mac
accept_connection(mac, fd) ==
    LET existing == find_by_mac(devices, device_count, mac)
    IN IF existing # NULL
       THEN device_manager_reconnect_device(existing, fd)
       ELSE IF ~has_capacity(device_count, maxDevices) \/ AddFails(fd)
       THEN UNCHANGED <<registry, openFds>>
       ELSE /\ device_manager_add_device(mac, fd)
            /\ openFds' = openFds \cup {fd}

\* bluetooth_server_run_once
ServerRunOnce ==
    /\ IF server.running = 0 \/ server.server_socket < 0
       THEN /\ lastOp' = SrvOp("run_once", ERROR_GENERIC)
            /\ UNCHANGED <<registry, openFds>>
       ELSE \E wait \in WaitOutcomes :
               IF wait # "ready"
               THEN /\ lastOp' = [SrvOp("run_once", RunOnceResult(wait, 0))
                                    EXCEPT !.wait = wait]
                    /\ UNCHANGED <<registry, openFds>>
               ELSE \E err \in AcceptOutcomes :
                       IF err # "none"
                       THEN /\ lastOp' = [SrvOp("run_once", RunOnceResult(wait, ERROR_NETWORK))
                                            EXCEPT !.wait = wait, !.err = err]
                            /\ UNCHANGED <<registry, openFds>>
                       ELSE \E mac \in Addresses :
                               /\ accept_connection(mac, LowestFree(openFds))
                               /\ lastOp' = [SrvOp("run_once", RunOnceResult(wait, LowestFree(openFds)))
                                               EXCEPT !.wait = wait, !.err = err, !.mac = mac]
    /\ lastNotify' = NotEvaluated
    /\ UNCHANGED <<process, maxDevices, server, listenFds, now, boltState, io>>

\* the number of bytes of a non-empty read
PayloadBytes == 64

\* what recv() can return on a socket: -1, 0 (closed by the peer), bytes
RecvOutcomes(fd) == IF fd \in openFds THEN {-1, 0, PayloadBytes} ELSE {-1}

\* a receive that reports a failed read as a closed connection
ReceiveReturn_zero(bytes_received) == IF bytes_received < 0 THEN 0 ELSE bytes_received

\* what bluetooth_server_receive_data returns
ReceiveReturn(bytes_received) ==
    IF bytes_received < 0 THEN ERROR_NETWORK ELSE bytes_received

\* bluetooth_server_receive_data(server, fd)
ServerReceiveData ==
    /\ \E fd \in Handles \cup {-1} :
          IF fd < 0
          THEN /\ lastOp' = [SrvOp("receive_data", ERROR_INVALID_PARAM) EXCEPT !.fd = fd]
               /\ UNCHANGED registry
          ELSE \E n \in RecvOutcomes(fd) :
                  LET device == find_by_socket(devices, device_count, fd)
                      result == [SrvOp("receive_data", ReceiveReturn(n))
                                   EXCEPT !.fd = fd, !.bytes = n]
                  IN IF ReceiveReturn(n) <= 0 \/ device = NULL
                     THEN /\ lastOp' = result
                          /\ UNCHANGED registry
                     ELSE /\ \E payload \in Payloads :
                                device_manager_process_data(device, payload)
                          /\ lastOp' = result
    /\ lastNotify' = NotEvaluated
    /\ UNCHANGED <<process, maxDevices, server, listenFds, now, boltState, openFds, io>>

\* bluetooth_server_handle_disconnect(server, fd): always SUCCESS
ServerHandleDisconnect ==
    /\ \E fd \in Handles :
          LET device == find_by_socket(devices, device_count, fd)
          IN IF device = NULL
             THEN /\ lastOp' = [SrvOp("handle_disconnect", SUCCESS) EXCEPT !.fd = fd]
                  /\ lastNotify' = NotEvaluated
                  /\ UNCHANGED <<registry, openFds>>
             ELSE /\ device_manager_remove_device(IndexOf(device))
                  /\ lastOp' = [SrvOp("handle_disconnect", SUCCESS)
                                  EXCEPT !.fd = fd, !.removed = 1]
    /\ UNCHANGED <<process, maxDevices, server, listenFds, now, boltState, io>>

NextServer ==
    \/ ServerInit
    \/ ServerInitWithConfig
    \/ ServerCreateSocket
    \/ ServerStart
    \/ ServerStop
    \/ ServerCleanup
    \/ ServerRunOnce
    \/ ServerReceiveData
    \/ ServerHandleDisconnect

SpecServer == InitServer /\ [][NextServer]_vars

\* --------------------------------------------- the thread in bluetooth_server_run
\* bluetooth_server_init has run; one thread calls bluetooth_server_run and
\* other threads (or a signal handler on the same thread) start and stop the
\* server and report disconnects.  The loop thread's steps are the reads of
\* server->running and server->server_socket, the wait in select() and the
\* usleep after a timeout.
InitRun ==
    /\ maxDevices \in 1 .. MaxCapacity
    /\ devices = [i \in 0 .. (maxDevices - 1) |-> ClearedDevice]
    /\ device_count = 0
    /\ last_disconnected_token = NoToken
    /\ now = StartTime
    /\ boltState = "ERROR"
    /\ openFds = {}
    /\ io = IoIdle
    /\ lastOp = Op("init", "SUCCESS", 0)
    /\ lastNotify = NotEvaluated
    /\ lastRemovedToken = NoToken
    /\ server = [server_socket |-> -1, config |-> DefaultConfig, running |-> 0]
    /\ listenFds = {}
    /\ g_system_running = 1
    /\ manager_running = 0
    /\ heartbeat_thread = NULL
    /\ workers = [w \in WorkerIds |-> NoWorker]
    /\ mainPc = "idle"
    /\ exit_code = 0
    /\ runPc = "idle"
    /\ delivery = "none"
    /\ joining = FALSE
    /\ manager_mutex = Unlocked
    /\ device_mutex = [i \in 0 .. (maxDevices - 1) |-> Unlocked]
    /\ sweep = NoSweep

\* the positions of a thread that is inside the loop of bluetooth_server_run
InLoop == {"test", "once", "wait", "sleep"}

\* what the run thread leaves alone in every step
RunFrame == <<maxDevices, server, listenFds, now, boltState, io, g_system_running,
              manager_running, heartbeat_thread, workers, mainPc, exit_code, delivery,
              joining, lockState>>

\* bluetooth_server_run is called: ERROR_GENERIC unless the server is running
RunEnter ==
    /\ runPc \in {"idle", "returned"}
    /\ IF server.running = 0
       THEN /\ runPc' = "returned"
            /\ lastOp' = SrvOp("run", ERROR_GENERIC)
       ELSE /\ runPc' = "test"
            /\ lastOp' = Op("run_enter", "DONE", 0)
    /\ lastNotify' = NotEvaluated
    /\ UNCHANGED <<RunFrame, registry, openFds>>

\* while (server->running)
LoopContinues(srv) == srv.running # 0

\* the loop's test: return exit_code (SUCCESS) or call bluetooth_server_run_once
RunTest ==
    /\ runPc = "test"
    /\ IF LoopContinues(server)
       THEN /\ runPc' = "once"
            /\ lastOp' = Op("run_test", "DONE", 0)
       ELSE /\ runPc' = "returned"
            /\ lastOp' = SrvOp("run", SUCCESS)
    /\ lastNotify' = NotEvaluated
    /\ UNCHANGED <<RunFrame, registry, openFds>>

\* the entry of bluetooth_server_run_once: ERROR_GENERIC, which ends the loop,
\* or select() on the server socket
RunOnceEntry ==
    /\ runPc = "once"
    /\ IF server.running = 0 \/ server.server_socket < 0
       THEN /\ runPc' = "returned"
            /\ lastOp' = SrvOp("run", ERROR_GENERIC)
       ELSE /\ runPc' = "wait"
            /\ lastOp' = Op("select", "DONE", 0)
    /\ lastNotify' = NotEvaluated
    /\ UNCHANGED <<RunFrame, registry, openFds>>

\* where the loop goes with the result of bluetooth_server_run_once
AfterRunOnce(result) ==
    IF result < 0 THEN "returned" ELSE IF result = 1 THEN "sleep" ELSE "test"

\* select() returns and bluetooth_server_run_once finishes; a negative result
\* ends the loop and is what bluetooth_server_run returns
RunWait ==
    /\ runPc = "wait"
    /\ \E wait \in WaitOutcomes :
          IF wait # "ready"
          THEN /\ runPc' = AfterRunOnce(RunOnceResult(wait, 0))
               /\ lastOp' = [SrvOp(IF RunOnceResult(wait, 0) < 0 THEN "run" ELSE "run_once",
                                   RunOnceResult(wait, 0))
                               EXCEPT !.wait = wait]
               /\ UNCHANGED <<registry, openFds>>
          ELSE \E err \in AcceptOutcomes :
                  IF err # "none"
                  THEN /\ runPc' = AfterRunOnce(RunOnceResult(wait, ERROR_NETWORK))
                       /\ lastOp' = [SrvOp("run_once", RunOnceResult(wait, ERROR_NETWORK))
                                       EXCEPT !.wait = wait, !.err = err]
                       /\ UNCHANGED <<registry, openFds>>
                  ELSE \E mac \in Addresses :
                          /\ accept_connection(mac, LowestFree(openFds))
                          /\ runPc' = AfterRunOnce(RunOnceResult(wait, LowestFree(openFds)))
                          /\ lastOp' = [SrvOp("run_once", RunOnceResult(wait, LowestFree(openFds)))
                                          EXCEPT !.wait = wait, !.err = err, !.mac = mac]
    /\ lastNotify' = NotEvaluated
    /\ UNCHANGED RunFrame

\* usleep(10000) after a timeout
RunSleep ==
    /\ runPc = "sleep"
    /\ runPc' = "test"
    /\ lastOp' = NoOp
    /\ lastNotify' = NotEvaluated
    /\ UNCHANGED <<RunFrame, registry, openFds>>

NextRun ==
    \/ ServerStart
    \/ ServerStop
    \/ ServerReceiveData
    \/ ServerHandleDisconnect
    \/ RunEnter
    \/ RunTest
    \/ RunOnceEntry
    \/ RunWait
    \/ RunSleep

SpecRun == InitRun /\ [][NextRun]_vars

\* the loop thread is scheduled, and select() and usleep() return
FairSpecRun ==
    /\ SpecRun
    /\ WF_vars(RunTest)
    /\ WF_vars(RunOnceEntry)
    /\ WF_vars(RunWait)
    /\ WF_vars(RunSleep)

\* ------------------------------------------------ the heartbeat worker's life
\* device_manager_init has run.  One controlling thread calls
\* device_manager_start_heartbeat and device_manager_stop_heartbeat; peers are
\* registered and the clock runs.  A worker's steps are its wake-up from
\* sleep(), where it reads manager->running and then the clock, and its sweep,
\* after which it reads manager->running in the loop's test.
InitHeartbeat ==
    /\ maxDevices \in 1 .. MaxCapacity
    /\ devices = [i \in 0 .. (maxDevices - 1) |-> ClearedDevice]
    /\ device_count = 0
    /\ last_disconnected_token = NoToken
    /\ now = StartTime
    /\ boltState = "ERROR"
    /\ openFds = {}
    /\ io = IoIdle
    /\ lastOp = Op("init", "SUCCESS", 0)
    /\ lastNotify = NotEvaluated
    /\ lastRemovedToken = NoToken
    /\ server = ZeroServer
    /\ listenFds = {}
    /\ g_system_running = 1
    /\ manager_running = 0
    /\ heartbeat_thread = NULL
    /\ workers = [w \in WorkerIds |-> NoWorker]
    /\ mainPc = "idle"
    /\ exit_code = 0
    /\ runPc = "idle"
    /\ delivery = "none"
    /\ joining = FALSE
    /\ manager_mutex = Unlocked
    /\ device_mutex = [i \in 0 .. (maxDevices - 1) |-> Unlocked]
    /\ sweep = NoSweep

\* what the lifecycle calls and the worker leave alone
HeartbeatFrame == <<maxDevices, now, boltState, io, server, listenFds, g_system_running,
                    exit_code, runPc, delivery, joining, lockState>>

\* threads that pthread_create can still hand out
FreeWorkers == {w \in WorkerIds : workers[w].pc = "none"}

\* threads inside device_manager_heartbeat_worker
LiveWorkers == {w \in WorkerIds : workers[w].pc \in {"sleep", "check"}}

\* what pthread_create can do: start a thread, or fail (EAGAIN)
CreateThreadOutcomes == (IF FreeWorkers = {} THEN {} ELSE {"created"}) \cup {"EAGAIN"}

\* device_manager_start_heartbeat: running = 1, pthread_create; on failure
\* running = 0 and ERROR_GENERIC
HbStart ==
    /\ mainPc = "idle"
    /\ \E outcome \in CreateThreadOutcomes :
          IF outcome = "created"
          THEN LET w == CHOOSE x \in FreeWorkers : \A y \in FreeWorkers : x <= y
               IN /\ manager_running' = 1
                  /\ heartbeat_thread' = w
                  /\ workers' = [workers EXCEPT ![w] = Sleeping]
                  /\ lastOp' = [SrvOp("start_heartbeat", SUCCESS) EXCEPT !.err = outcome]
          ELSE /\ manager_running' = 0
               /\ lastOp' = [SrvOp("start_heartbeat", ERROR_GENERIC) EXCEPT !.err = outcome]
               /\ UNCHANGED <<heartbeat_thread, workers>>
    /\ lastNotify' = NotEvaluated
    /\ UNCHANGED <<HeartbeatFrame, registry, openFds, mainPc>>

\* device_manager_stop_heartbeat up to pthread_join: nothing when running is
\* 0, else running = 0 and the caller waits for heartbeat_thread
HbStop ==
    /\ mainPc = "idle"
    /\ IF manager_running = 0
       THEN /\ lastOp' = Op("stop_heartbeat", "DONE", 0)
            /\ UNCHANGED <<manager_running, mainPc>>
       ELSE /\ manager_running' = 0
            /\ mainPc' = "join"
            /\ lastOp' = Op("pthread_join", "WAIT", 0)
    /\ lastNotify' = NotEvaluated
    /\ UNCHANGED <<HeartbeatFrame, registry, openFds, heartbeat_thread, workers>>

\* pthread_join returns once heartbeat_thread has returned, and
\* device_manager_stop_heartbeat returns
HbJoin ==
    /\ mainPc = "join"
    /\ workers[heartbeat_thread] = Exited
    /\ workers' = [workers EXCEPT ![heartbeat_thread] = NoWorker]
    /\ mainPc' = "idle"
    /\ lastOp' = Op("stop_heartbeat", "DONE", 0)
    /\ lastNotify' = NotEvaluated
    /\ UNCHANGED <<HeartbeatFrame, registry, openFds, manager_running, heartbeat_thread>>

\* a worker that goes back to sleep without sweeping
AfterWake_skip(running, t) == IF running = 0 THEN Exited ELSE Sleeping

\* the worker after sleep(): gone when running is 0, else in
\* device_manager_check_timeouts with the clock value it read
AfterWake(running, t) == IF running = 0 THEN Exited ELSE [pc |-> "check", t |-> t]

\* sleep(HEARTBEAT_CHECK_INTERVAL) ends: the worker leaves when running is 0,
\* else it enters device_manager_check_timeouts and reads the clock
WorkerWake(w) ==
    /\ workers[w].pc = "sleep"
    /\ workers' = [workers EXCEPT ![w] = AfterWake(manager_running, now)]
    /\ lastOp' = NoOp
    /\ lastNotify' = NotEvaluated
    /\ UNCHANGED <<HeartbeatFrame, registry, openFds, manager_running, heartbeat_thread,
                   mainPc>>

\* the worker's sweep under manager_mutex, then while (manager->running)
WorkerSweep(w) ==
    /\ workers[w].pc = "check"
    /\ device_manager_check_timeouts(workers[w].t)
    /\ workers' = [workers EXCEPT ![w] = IF manager_running = 0 THEN Exited ELSE Sleeping]
    /\ UNCHANGED <<HeartbeatFrame, manager_running, heartbeat_thread, mainPc>>

WorkerStep == \E w \in WorkerIds : WorkerWake(w) \/ WorkerSweep(w)

NextHeartbeat ==
    \/ HbStart
    \/ HbStop
    \/ HbJoin
    \/ WorkerStep
    \/ ApiAddDevice
    \/ Tick

SpecHeartbeat == InitHeartbeat /\ [][NextHeartbeat]_vars

\* ------------------------------------------------------- the sweep left running
\* main's state after startup: the worker that device_manager_start_heartbeat
\* created runs and nobody stops it, while peers are registered and
\* reconnected and the clock runs.
NextSweep ==
    \/ WorkerStep
    \/ ApiAddDevice
    \/ ApiReconnectDevice
    \/ Tick

SpecSweep == Init /\ [][NextSweep]_vars

\* the worker thread is scheduled and its sleep() returns, and time passes
FairSpecSweep ==
    /\ SpecSweep
    /\ WF_vars(WorkerStep)
    /\ WF_vars(Tick)

\* --------------------------------------------- removals whose reminder can fail
\* The device manager called directly while the door is unlocked, with
\* send_door_close_reminder either succeeding or failing; `delivery` keeps how
\* the latest call of send_door_close_reminder ended.
InitNotify ==
    /\ maxDevices \in 1 .. MaxCapacity
    /\ devices = [i \in 0 .. (maxDevices - 1) |-> ClearedDevice]
    /\ device_count = 0
    /\ last_disconnected_token = NoToken
    /\ now = StartTime
    /\ boltState = "UNLOCKED"
    /\ openFds = {}
    /\ io = IoIdle
    /\ lastOp = Op("init", "SUCCESS", 0)
    /\ lastNotify = NotEvaluated
    /\ lastRemovedToken = NoToken
    /\ server = ZeroServer
    /\ listenFds = {}
    /\ g_system_running = 1
    /\ manager_running = 0
    /\ heartbeat_thread = NULL
    /\ workers = [w \in WorkerIds |-> NoWorker]
    /\ mainPc = "idle"
    /\ exit_code = 0
    /\ runPc = "idle"
    /\ delivery = "none"
    /\ joining = FALSE
    /\ manager_mutex = Unlocked
    /\ device_mutex = [i \in 0 .. (maxDevices - 1) |-> Unlocked]
    /\ sweep = NoSweep

\* what send_door_close_reminder returns: 0, or a negative code
SendResults == {SUCCESS, ERROR_GENERIC}

\* how a call that returned `result` ended
DeliveryOf(result) == IF result = SUCCESS THEN "ok" ELSE "failed"

\* a removal that hands the result of check_and_send_notification to its caller
RemoveReturn_escalates(result) == result

\* what device_manager_remove_device returns after
\* check_and_send_notification returned `result`
RemoveReturn(result) == SUCCESS

NotifyFrame == <<maxDevices, server, listenFds, now, boltState, io, g_system_running,
                 manager_running, heartbeat_thread, workers, mainPc, exit_code, runPc,
                 joining, lockState>>

\* device_manager_remove_device(manager, &manager->devices[p])
NotifyRemoveDevice ==
    /\ \E p \in Slots :
          IF IndexOf(p) = -1
          THEN /\ lastOp' = [Op("remove", "ERROR_GENERIC", 0) EXCEPT !.ptr = p]
               /\ lastNotify' = NotEvaluated
               /\ UNCHANGED <<registry, openFds, delivery>>
          ELSE /\ device_manager_remove_device(IndexOf(p))
               /\ \E result \in SendResults :
                     /\ delivery' = IF lastNotify'.invoked THEN DeliveryOf(result)
                                    ELSE delivery
                     /\ lastOp' = [Op("remove",
                                      RetName(IF lastNotify'.invoked THEN RemoveReturn(result)
                                              ELSE SUCCESS), 1)
                                     EXCEPT !.ptr = p]
    /\ UNCHANGED NotifyFrame

\* device_manager_check_timeouts(manager)
NotifyCheckTimeouts ==
    /\ device_manager_check_timeouts(now)
    /\ \E result \in SendResults :
          delivery' = IF lastNotify'.invoked THEN DeliveryOf(result) ELSE delivery
    /\ UNCHANGED NotifyFrame

\* the payloads of peers that all send one token, of the minimum length, or
\* JSON without a token
NotifyPayloads == {pl \in Payloads : pl.kind = "notoken" \/ pl.token.len = MIN_FCM_TOKEN_LENGTH}

\* device_manager_process_data(manager, fd, payload)
NotifyProcessData ==
    /\ \E fd \in Handles :
          LET device == find_by_socket(devices, device_count, fd)
          IN IF device = NULL
             THEN /\ lastOp' = Op("process_data", "ERROR_GENERIC", 0)
                  /\ UNCHANGED registry
             ELSE /\ \E payload \in NotifyPayloads :
                        device_manager_process_data(device, payload)
                  /\ lastOp' = Op("process_data", "SUCCESS", 0)
    /\ lastNotify' = NotEvaluated
    /\ UNCHANGED <<NotifyFrame, openFds, delivery>>

NextNotify ==
    \/ ApiAddDevice
    \/ ApiReconnectDevice
    \/ NotifyProcessData
    \/ NotifyRemoveDevice
    \/ NotifyCheckTimeouts
    \/ Tick

SpecNotify == InitNotify /\ [][NextNotify]_vars

\* ------------------------------------------------------------ the process, main()
\* main() from its first statement: the startup steps, the event loop, the
\* cleanup and the return, with the heartbeat worker that startup creates, the
\* clock, and SIGINT/SIGTERM arriving at any moment.  signal_handler runs on
\* the main thread; when its pthread_join has to wait for the worker, the main
\* thread stays where it is (joining) until the worker has returned.

\* static DeviceManager g_device_manager = {0}: a zeroed slot
ZeroDevice == [mac_address |-> "", fcm_token |-> NoToken, socket_fd |-> 0,
               last_heartbeat |-> 0]

InitMain ==
    /\ maxDevices \in 1 .. MaxCapacity
    /\ devices = [i \in 0 .. (maxDevices - 1) |-> ZeroDevice]
    /\ device_count = 0
    /\ last_disconnected_token = NoToken
    /\ now = StartTime
    /\ boltState = "ERROR"
    /\ openFds = {}
    /\ io = IoIdle
    /\ lastOp = NoOp
    /\ lastNotify = NotEvaluated
    /\ lastRemovedToken = NoToken
    /\ server = ZeroServer
    /\ listenFds = {}
    /\ g_system_running = 1
    /\ manager_running = 0
    /\ heartbeat_thread = NULL
    /\ workers = [w \in WorkerIds |-> NoWorker]
    /\ mainPc = "logger"
    /\ exit_code = 0
    /\ runPc = "idle"
    /\ delivery = "none"
    /\ joining = FALSE
    /\ manager_mutex = Unlocked
    /\ device_mutex = [i \in 0 .. (maxDevices - 1) |-> Unlocked]
    /\ sweep = NoSweep

\* the statements of main() before the event loop, in their order
StartupSteps == <<"logger", "signals", "requirements", "door", "manager", "server">>

\* where main() goes after a startup step returned `result`: the next step (the
\* event loop after the last), or the cleanup label
AfterStep(k, result) ==
    IF result # SUCCESS THEN "cleanup"
    ELSE IF k = Len(StartupSteps) THEN "loop" ELSE StartupSteps[k + 1]

\* exit_code after a startup step returned `result`; `code` is what main()
\* assigns when the step failed
ExitCodeAfter(old, result, code) == IF result # SUCCESS THEN code ELSE old

\* what no step of main() and no signal changes
MainFrame == <<maxDevices, now, io, runPc, delivery, lastRemovedToken, lockState>>

\* logger_init, then the test for -h/--help: both return from main() directly
MainLoggerInit ==
    /\ mainPc = "logger"
    /\ \E outcome \in {"ok", "help", "failed"} :
          /\ mainPc' = IF outcome = "ok" THEN AfterStep(1, SUCCESS) ELSE "exited"
          /\ exit_code' = IF outcome = "failed" THEN ERROR_GENERIC ELSE exit_code
          /\ lastOp' = [SrvOp("logger_init", IF outcome = "failed" THEN ERROR_GENERIC
                                             ELSE SUCCESS)
                          EXCEPT !.err = outcome]
    /\ lastNotify' = NotEvaluated
    /\ UNCHANGED <<MainFrame, registry, openFds, server, listenFds, boltState,
                   g_system_running, manager_running, heartbeat_thread, workers, joining>>

\* install_signal_handlers
MainInstallSignalHandlers ==
    /\ mainPc = "signals"
    /\ \E result \in {SUCCESS, ERROR_GENERIC} :
          /\ mainPc' = AfterStep(2, result)
          /\ exit_code' = ExitCodeAfter(exit_code, result, ERROR_GENERIC)
          /\ lastOp' = SrvOp("install_signal_handlers", result)
    /\ lastNotify' = NotEvaluated
    /\ UNCHANGED <<MainFrame, registry, openFds, server, listenFds, boltState,
                   g_system_running, manager_running, heartbeat_thread, workers, joining>>

\* check_system_requirements: no root privileges, or no Bluetooth socket
MainCheckRequirements ==
    /\ mainPc = "requirements"
    /\ ~joining
    /\ \E result \in {SUCCESS, ERROR_PRIVILEGES, ERROR_HARDWARE_INIT} :
          /\ mainPc' = AfterStep(3, result)
          /\ exit_code' = ExitCodeAfter(exit_code, result, ERROR_PRIVILEGES)
          /\ lastOp' = SrvOp("check_system_requirements", result)
    /\ lastNotify' = NotEvaluated
    /\ UNCHANGED <<MainFrame, registry, openFds, server, listenFds, boltState,
                   g_system_running, manager_running, heartbeat_thread, workers, joining>>

\* init_door_sensor: the driver's init(), which ends with setDoorState(ERROR)
MainInitDoorSensor ==
    /\ mainPc = "door"
    /\ ~joining
    /\ \E result \in {SUCCESS, ERROR_HARDWARE_INIT} :
          /\ mainPc' = AfterStep(4, result)
          /\ exit_code' = ExitCodeAfter(exit_code, result, ERROR_HARDWARE_INIT)
          /\ boltState' = IF result = SUCCESS THEN "ERROR" ELSE boltState
          /\ lastOp' = SrvOp("init_door_sensor", result)
    /\ lastNotify' = NotEvaluated
    /\ UNCHANGED <<MainFrame, registry, openFds, server, listenFds,
                   g_system_running, manager_running, heartbeat_thread, workers, joining>>

\* init_device_manager: device_manager_init, whose mutex can fail to
\* initialise, then device_manager_start_heartbeat, whose thread can fail to
\* start (device_manager_cleanup follows)
MainInitDeviceManager ==
    /\ mainPc = "manager"
    /\ ~joining
    /\ \E outcome \in {"ok", "mutex", "thread"} :
          LET result == IF outcome = "ok" THEN SUCCESS ELSE ERROR_GENERIC
              w == CHOOSE x \in FreeWorkers : \A y \in FreeWorkers : x <= y
          IN /\ devices' = [i \in Slots |-> ClearedDevice]
             /\ device_count' = 0
             /\ last_disconnected_token' = NoToken
             /\ IF outcome = "ok"
                THEN /\ manager_running' = 1
                     /\ heartbeat_thread' = w
                     /\ workers' = [workers EXCEPT ![w] = Sleeping]
                ELSE /\ manager_running' = 0
                     /\ UNCHANGED <<heartbeat_thread, workers>>
             /\ mainPc' = AfterStep(5, result)
             /\ exit_code' = ExitCodeAfter(exit_code, result, ERROR_GENERIC)
             /\ lastOp' = [SrvOp("init_device_manager", result) EXCEPT !.err = outcome]
    /\ lastNotify' = NotEvaluated
    /\ UNCHANGED <<MainFrame, openFds, server, listenFds, boltState, g_system_running,
                   joining>>

\* init_bluetooth_server: bluetooth_server_init, then bluetooth_server_start
\* (bluetooth_server_cleanup follows a failed start)
MainInitBluetoothServer ==
    /\ mainPc = "server"
    /\ ~joining
    /\ \E outcome \in CreateOutcomes(listenFds) :
          LET r == create_socket(outcome, listenFds)
              result == IF r.result = SUCCESS THEN SUCCESS ELSE ERROR_GENERIC
          IN /\ server' = IF r.result = SUCCESS
                          THEN [server_socket |-> r.server_socket, config |-> DefaultConfig,
                                running |-> 1]
                          ELSE [ZeroServer EXCEPT !.server_socket = -1]
             /\ listenFds' = r.open
             /\ mainPc' = AfterStep(6, result)
             /\ exit_code' = ExitCodeAfter(exit_code, result, ERROR_GENERIC)
             /\ lastOp' = [SrvOp("init_bluetooth_server", result) EXCEPT !.err = outcome]
    /\ lastNotify' = NotEvaluated
    /\ UNCHANGED <<MainFrame, registry, openFds, boltState, g_system_running,
                   manager_running, heartbeat_thread, workers, joining>>

\* an event loop that reports the failure of an iteration as the exit status
LoopExitCode_propagates(code, result) == IF result < 0 THEN result ELSE code

\* exit_code after the event loop's call of bluetooth_server_run_once returned
\* `result`: a negative result breaks the loop and leaves exit_code as it is
LoopExitCode(code, result) == code

\* one pass of the event loop: the test of g_system_running, then
\* bluetooth_server_run_once and, unless it failed, check_door_notification
MainLoop ==
    /\ mainPc = "loop"
    /\ ~joining
    /\ IF g_system_running = 0
       THEN /\ mainPc' = "cleanup"
            /\ lastOp' = Op("loop_exit", "DONE", 0)
            /\ UNCHANGED <<registry, openFds, exit_code>>
       ELSE /\ IF server.running = 0 \/ server.server_socket < 0
               THEN /\ lastOp' = SrvOp("run_once", ERROR_GENERIC)
                    /\ UNCHANGED <<registry, openFds>>
               ELSE \E wait \in WaitOutcomes :
                       IF wait # "ready"
                       THEN /\ lastOp' = [SrvOp("run_once", RunOnceResult(wait, 0))
                                            EXCEPT !.wait = wait]
                            /\ UNCHANGED <<registry, openFds>>
                       ELSE \E err \in AcceptOutcomes :
                               IF err # "none"
                               THEN /\ lastOp' = [SrvOp("run_once",
                                                        RunOnceResult(wait, ERROR_NETWORK))
                                                    EXCEPT !.wait = wait, !.err = err]
                                    /\ UNCHANGED <<registry, openFds>>
                               ELSE \E mac \in Addresses :
                                       /\ accept_connection(mac, LowestFree(openFds))
                                       /\ lastOp' = [SrvOp("run_once",
                                                           RunOnceResult(wait, LowestFree(openFds)))
                                                       EXCEPT !.wait = wait, !.err = err,
                                                              !.mac = mac]
            /\ mainPc' = IF lastOp'.value < 0 THEN "cleanup" ELSE "loop"
            /\ exit_code' = LoopExitCode(exit_code, lastOp'.value)
    /\ lastNotify' = IF mainPc' = "loop"
                     THEN IF DoorNotificationFires(device_count', last_disconnected_token',
                                                   boltState)
                          THEN Sent(last_disconnected_token')
                          ELSE Skipped
                     ELSE NotEvaluated
    /\ UNCHANGED <<maxDevices, now, io, runPc, delivery, server, listenFds, boltState,
                   g_system_running, manager_running, heartbeat_thread, workers, joining,
                   lockState>>

\* signal_handler: g_system_running = 0, bluetooth_server_stop,
\* device_manager_stop_heartbeat (which waits in pthread_join when the sweep
\* was running)
SignalHandler ==
    /\ mainPc \notin {"logger", "signals", "exited"}
    /\ g_system_running' = 0
    /\ server' = StoppedServer(server)
    /\ listenFds' = listenFds \ ClosedByStop(server)
    /\ IF manager_running = 1
       THEN /\ manager_running' = 0
            /\ joining' = TRUE
       ELSE UNCHANGED <<manager_running, joining>>
    /\ lastOp' = Op("signal_handler", "DONE", 0)
    /\ lastNotify' = NotEvaluated
    /\ UNCHANGED <<MainFrame, registry, openFds, boltState, heartbeat_thread, workers,
                   mainPc, exit_code>>

\* pthread_join returns: the thread in heartbeat_thread has returned
JoinReturns ==
    /\ joining
    /\ workers[heartbeat_thread] = Exited
    /\ workers' = [workers EXCEPT ![heartbeat_thread] = NoWorker]
    /\ joining' = FALSE
    /\ lastOp' = Op("stop_heartbeat", "DONE", 0)
    /\ lastNotify' = NotEvaluated
    /\ UNCHANGED <<MainFrame, registry, openFds, server, listenFds, boltState,
                   g_system_running, manager_running, heartbeat_thread, mainPc, exit_code>>

\* cleanup_system: bluetooth_server_stop and bluetooth_server_cleanup
MainCleanupServer ==
    /\ mainPc = "cleanup"
    /\ ~joining
    /\ server' = [ZeroServer EXCEPT !.server_socket = -1]
    /\ listenFds' = listenFds \ ClosedByStop(server)
    /\ mainPc' = "cleanup_heartbeat"
    /\ lastOp' = Op("cleanup", "DONE", 0)
    /\ lastNotify' = NotEvaluated
    /\ UNCHANGED <<MainFrame, registry, openFds, boltState, g_system_running,
                   manager_running, heartbeat_thread, workers, exit_code, joining>>

\* cleanup_system: device_manager_stop_heartbeat
MainCleanupHeartbeat ==
    /\ mainPc = "cleanup_heartbeat"
    /\ ~joining
    /\ IF manager_running = 1
       THEN /\ manager_running' = 0
            /\ joining' = TRUE
       ELSE UNCHANGED <<manager_running, joining>>
    /\ mainPc' = "cleanup_manager"
    /\ lastOp' = Op("pthread_join", "WAIT", 0)
    /\ lastNotify' = NotEvaluated
    /\ UNCHANGED <<MainFrame, registry, openFds, server, listenFds, boltState,
                   g_system_running, heartbeat_thread, workers, exit_code>>

\* a cleanup that leaves the sockets of the records open
cleanup_device_keep_open(d) == d

\* cleanup_device: close() of a socket > 0, which becomes -1; address, token
\* and heartbeat stay as they are
cleanup_device(d) == IF d.socket_fd > 0 THEN [d EXCEPT !.socket_fd = -1] ELSE d

\* device_manager_cleanup: running = 0, cleanup_device on every slot of the
\* array, device_count = 0; no "Save FCM token", no check_and_send_notification
device_manager_cleanup ==
    /\ manager_running' = 0
    /\ devices' = [i \in Slots |-> cleanup_device(devices[i])]
    /\ device_count' = 0
    /\ openFds' = openFds \ {devices[i].socket_fd :
                                 i \in {j \in Slots : cleanup_device(devices[j]) # devices[j]}}
    /\ lastNotify' = NotEvaluated
    /\ UNCHANGED last_disconnected_token

\* cleanup_system: device_manager_cleanup, once manager_mutex is obtained,
\* then main() returns exit_code
MainCleanupManager ==
    /\ mainPc = "cleanup_manager"
    /\ ~joining
    /\ manager_mutex = Unlocked
    /\ device_manager_cleanup
    /\ mainPc' = "exited"
    /\ lastOp' = SrvOp("main", exit_code)
    /\ UNCHANGED <<MainFrame, server, listenFds, boltState, g_system_running,
                   heartbeat_thread, workers, exit_code, joining>>

\* the heartbeat worker, as long as the process exists
MainWorkerStep ==
    /\ mainPc # "exited"
    /\ WorkerStep

\* the clock, as long as the process exists
MainTick ==
    /\ mainPc # "exited"
    /\ Tick

NextMain ==
    \/ MainLoggerInit
    \/ MainInstallSignalHandlers
    \/ MainCheckRequirements
    \/ MainInitDoorSensor
    \/ MainInitDeviceManager
    \/ MainInitBluetoothServer
    \/ MainLoop
    \/ SignalHandler
    \/ JoinReturns
    \/ MainCleanupServer
    \/ MainCleanupHeartbeat
    \/ MainCleanupManager
    \/ MainWorkerStep
    \/ MainTick

SpecMain == InitMain /\ [][NextMain]_vars

\* every thread of the process is scheduled: main() goes on through its
\* cleanup, sleep() ends, pthread_join returns once the worker has returned
FairSpecMain ==
    /\ SpecMain
    /\ WF_vars(MainCleanupServer)
    /\ WF_vars(MainCleanupHeartbeat)
    /\ WF_vars(MainCleanupManager)
    /\ WF_vars(JoinReturns)
    /\ WF_vars(MainWorkerStep)

\* ------------------------------------------------- a registry of three records
\* The device manager called directly in a build whose MAX_DEVICES leaves room
\* for a record before and a record behind the one that is removed; the door
\* is locked, so no reminder is sent.
InitCompact ==
    /\ maxDevices = MaxCapacity + 1
    /\ devices = [i \in 0 .. (maxDevices - 1) |-> ClearedDevice]
    /\ device_count = 0
    /\ last_disconnected_token = NoToken
    /\ now = StartTime
    /\ boltState = "LOCKED"
    /\ openFds = {}
    /\ io = IoIdle
    /\ lastOp = Op("init", "SUCCESS", 0)
    /\ lastNotify = NotEvaluated
    /\ lastRemovedToken = NoToken
    /\ server = ZeroServer
    /\ listenFds = {}
    /\ g_system_running = 1
    /\ manager_running = 0
    /\ heartbeat_thread = NULL
    /\ workers = [w \in WorkerIds |-> NoWorker]
    /\ mainPc = "idle"
    /\ exit_code = 0
    /\ runPc = "idle"
    /\ delivery = "none"
    /\ joining = FALSE
    /\ manager_mutex = Unlocked
    /\ device_mutex = [i \in 0 .. (maxDevices - 1) |-> Unlocked]
    /\ sweep = NoSweep

NextCompact ==
    \/ ApiAddDevice
    \/ NotifyProcessData
    \/ ApiRemoveDevice
    \/ ApiCheckTimeouts
    \/ Tick

SpecCompact == InitCompact /\ [][NextCompact]_vars

\* ------------------------------------------------------- the read accessors
\* The device manager called directly, with the accessors of device_manager.h
\* among the calls; each accessor runs under manager_mutex and its result is
\* kept in lastOp (ptr for a Device*, value for an int; for
\* device_manager_get_last_token value is 1 for the address of the manager's
\* token buffer and 0 for NULL).

\* a test for devices that holds for an empty registry as well
has_devices_always(cnt) == cnt >= 0

\* device_manager_has_devices
has_devices(cnt) == cnt > 0

\* C's int for a comparison
BoolInt(b) == IF b THEN 1 ELSE 0

\* sockets a caller may ask for: those of peers, 0 and -1
QueryHandles == Handles \cup {0, -1}

QueryFindBySocket ==
    /\ \E fd \in QueryHandles :
          lastOp' = [Op("find_by_socket", "DONE", 0)
                       EXCEPT !.fd = fd, !.ptr = find_by_socket(devices, device_count, fd)]
    /\ lastNotify' = NotEvaluated
    /\ UNCHANGED <<process, maxDevices, server, listenFds, registry, now, boltState,
                   openFds, io>>

QueryFindByMac ==
    /\ \E mac \in Addresses :
          lastOp' = [Op("find_by_mac", "DONE", 0)
                       EXCEPT !.mac = mac, !.ptr = find_by_mac(devices, device_count, mac)]
    /\ lastNotify' = NotEvaluated
    /\ UNCHANGED <<process, maxDevices, server, listenFds, registry, now, boltState,
                   openFds, io>>

QueryGetCount ==
    /\ lastOp' = [Op("get_count", "DONE", 0) EXCEPT !.value = device_count]
    /\ lastNotify' = NotEvaluated
    /\ UNCHANGED <<process, maxDevices, server, listenFds, registry, now, boltState,
                   openFds, io>>

QueryHasCapacity ==
    /\ lastOp' = [Op("has_capacity", "DONE", 0)
                    EXCEPT !.value = BoolInt(has_capacity(device_count, maxDevices))]
    /\ lastNotify' = NotEvaluated
    /\ UNCHANGED <<process, maxDevices, server, listenFds, registry, now, boltState,
                   openFds, io>>

QueryHasDevices ==
    /\ lastOp' = [Op("has_devices", "DONE", 0)
                    EXCEPT !.value = BoolInt(has_devices(device_count))]
    /\ lastNotify' = NotEvaluated
    /\ UNCHANGED <<process, maxDevices, server, listenFds, registry, now, boltState,
                   openFds, io>>

QueryGetLastToken ==
    /\ lastOp' = [Op("get_last_token", "DONE", 0)
                    EXCEPT !.value = BoolInt(NonEmpty(last_disconnected_token))]
    /\ lastNotify' = NotEvaluated
    /\ UNCHANGED <<process, maxDevices, server, listenFds, registry, now, boltState,
                   openFds, io>>

NextQuery ==
    \/ ApiAddDevice
    \/ NotifyProcessData
    \/ ApiRemoveDevice
    \/ QueryFindBySocket
    \/ QueryFindByMac
    \/ QueryGetCount
    \/ QueryHasCapacity
    \/ QueryHasDevices
    \/ QueryGetLastToken

SpecQuery == Init /\ [][NextQuery]_vars

\* ------------------------------------------------ the two threads, lock by lock
\* The I/O thread (the accept path, payloads, disconnects) and the heartbeat
\* worker (device_manager_check_timeouts, device_manager_print_status), with
\* every pthread_mutex_lock a step of its own: a thread that asks for a mutex
\* another thread holds stays where it is.  io.pc is the I/O thread's position:
\* a name in ManagerEntry is "about to lock manager_mutex", the same name with
\* "_locked" is "inside that critical section".

\* mutex owners
IoThread == "io"
WorkerThread == "worker"

\* positions of the I/O thread just before pthread_mutex_lock(&manager->manager_mutex)
ManagerEntry == {"find_mac", "find_data", "find_gone", "count", "add", "remove"}
\* positions of the I/O thread just before pthread_mutex_lock(&device->device_mutex)
\* without manager_mutex: device_manager_reconnect_device, device_manager_process_data
DeviceEntry == {"reconnect", "data"}

Locked(pc) ==
    CASE pc = "find_mac" -> "find_mac_locked"
      [] pc = "find_data" -> "find_data_locked"
      [] pc = "find_gone" -> "find_gone_locked"
      [] pc = "count" -> "count_locked"
      [] pc = "add" -> "add_locked"
      [] pc = "remove" -> "remove_locked"
      [] pc = "reconnect" -> "reconnect_locked"
      [] pc = "data" -> "data_locked"

\* what the copy of a pthread_mutex_t can be: a mutex nobody holds copies as
\* such; the copy of a held mutex (undefined by POSIX) is a mutex in the held
\* state, whose holder never unlocks it, or a usable one
MutexCopies == {"held", "usable"}
CopyMutex(m, outcome) == IF outcome = "held" THEN m ELSE Unlocked

\* compact_device_array on the mutexes: devices[i] = devices[i + 1] copies
\* device_mutex with the rest of the struct; init_device initialises the mutex
\* of the freed slot
compact_mutexes(mx, cnt, removed_index, outcome) ==
    [i \in DOMAIN mx |->
        IF i < removed_index THEN mx[i]
        ELSE IF i < cnt - 1 THEN CopyMutex(mx[i + 1], outcome)
        ELSE IF i = cnt - 1 THEN Unlocked
        ELSE mx[i]]

\* what no step of the two threads changes
LockFrame == <<maxDevices, now, boltState, server, listenFds, g_system_running,
               manager_running, heartbeat_thread, mainPc, exit_code, runPc, delivery,
               joining>>

\* the main loop is running and the main thread is not inside a signal handler
IoRuns == mainPc = "loop" /\ ~joining

\* select() reports a connection and accept() returns its socket
LkAccept ==
    /\ IoRuns
    /\ io.pc = "idle"
    /\ g_system_running = 1
    /\ Handles \ openFds # {}
    /\ \E mac \in Addresses :
          io' = [pc |-> "find_mac", mac |-> mac, fd |-> LowestFree(openFds), ptr |-> NULL]
    /\ openFds' = openFds \cup {LowestFree(openFds)}
    /\ lastOp' = NoOp
    /\ lastNotify' = NotEvaluated
    /\ UNCHANGED <<LockFrame, registry, workers, lockState>>

\* a payload arrives on an open client socket, or its peer hangs up
LkReceive ==
    /\ IoRuns
    /\ io.pc = "idle"
    /\ g_system_running = 1
    /\ \E fd \in openFds : \E what \in {"find_data", "find_gone"} :
          io' = [pc |-> what, mac |-> "", fd |-> fd, ptr |-> NULL]
    /\ lastOp' = NoOp
    /\ lastNotify' = NotEvaluated
    /\ UNCHANGED <<LockFrame, registry, openFds, workers, lockState>>

\* pthread_mutex_lock(&manager->manager_mutex) returns in the I/O thread
LkLockManager ==
    /\ IoRuns
    /\ io.pc \in ManagerEntry
    /\ manager_mutex = Unlocked
    /\ manager_mutex' = IoThread
    /\ io' = [io EXCEPT !.pc = Locked(io.pc)]
    /\ lastOp' = NoOp
    /\ lastNotify' = NotEvaluated
    /\ UNCHANGED <<LockFrame, registry, openFds, workers, device_mutex, sweep>>

\* pthread_mutex_lock(&device->device_mutex) returns in
\* device_manager_reconnect_device or device_manager_process_data
LkLockDevice ==
    /\ IoRuns
    /\ io.pc \in DeviceEntry
    /\ device_mutex[io.ptr] = Unlocked
    /\ device_mutex' = [device_mutex EXCEPT ![io.ptr] = IoThread]
    /\ io' = [io EXCEPT !.pc = Locked(io.pc)]
    /\ lastOp' = NoOp
    /\ lastNotify' = NotEvaluated
    /\ UNCHANGED <<LockFrame, registry, openFds, workers, manager_mutex, sweep>>

\* device_manager_find_by_mac: the scan and the unlock
LkFindByMac ==
    /\ IoRuns
    /\ io.pc = "find_mac_locked"
    /\ LET existing == find_by_mac(devices, device_count, io.mac)
       IN io' = [io EXCEPT !.pc = IF existing # NULL THEN "reconnect" ELSE "count",
                           !.ptr = existing]
    /\ manager_mutex' = Unlocked
    /\ lastOp' = NoOp
    /\ lastNotify' = NotEvaluated
    /\ UNCHANGED <<LockFrame, registry, openFds, workers, device_mutex, sweep>>

\* device_manager_find_by_socket: the scan and the unlock
LkFindBySocket ==
    /\ IoRuns
    /\ io.pc \in {"find_data_locked", "find_gone_locked"}
    /\ LET device == find_by_socket(devices, device_count, io.fd)
       IN io' = IF device = NULL THEN IoIdle
                ELSE [io EXCEPT !.pc = IF io.pc = "find_data_locked" THEN "data"
                                       ELSE "remove",
                                !.ptr = device]
    /\ manager_mutex' = Unlocked
    /\ lastOp' = NoOp
    /\ lastNotify' = NotEvaluated
    /\ UNCHANGED <<LockFrame, registry, openFds, workers, device_mutex, sweep>>

\* device_manager_reconnect_device under device_mutex, and the unlock
LkReconnect ==
    /\ IoRuns
    /\ io.pc = "reconnect_locked"
    /\ device_manager_reconnect_device(io.ptr, io.fd)
    /\ device_mutex' = [device_mutex EXCEPT ![io.ptr] = Unlocked]
    /\ io' = IoIdle
    /\ lastOp' = Op("reconnect", "SUCCESS", 0)
    /\ lastNotify' = NotEvaluated
    /\ UNCHANGED <<LockFrame, workers, manager_mutex, sweep>>

\* device_manager_process_data under device_mutex, and the unlock
LkProcessData ==
    /\ IoRuns
    /\ io.pc = "data_locked"
    /\ \E payload \in NotifyPayloads : device_manager_process_data(io.ptr, payload)
    /\ device_mutex' = [device_mutex EXCEPT ![io.ptr] = Unlocked]
    /\ io' = IoIdle
    /\ lastOp' = Op("process_data", "SUCCESS", 0)
    /\ lastNotify' = NotEvaluated
    /\ UNCHANGED <<LockFrame, openFds, workers, manager_mutex, sweep>>

\* device_manager_has_capacity: the read of device_count and the unlock
LkHasCapacity ==
    /\ IoRuns
    /\ io.pc = "count_locked"
    /\ IF has_capacity(device_count, maxDevices)
       THEN /\ io' = [io EXCEPT !.pc = "add"]
            /\ lastOp' = NoOp
            /\ UNCHANGED openFds
       ELSE /\ io' = IoIdle
            /\ openFds' = openFds \ {io.fd}
            /\ lastOp' = Op("accept", "ERROR_CAPACITY_EXCEEDED", 0)
    /\ manager_mutex' = Unlocked
    /\ lastNotify' = NotEvaluated
    /\ UNCHANGED <<LockFrame, registry, workers, device_mutex, sweep>>

\* device_manager_add_device under manager_mutex: the capacity check, then the
\* new slot's device_mutex is taken, the record written and both are unlocked
LkAddDevice ==
    /\ IoRuns
    /\ io.pc = "add_locked"
    /\ IF AddFails(io.fd)
       THEN /\ openFds' = openFds \ {io.fd}
            /\ lastOp' = Op("accept", "ERROR_GENERIC", 0)
            /\ UNCHANGED registry
       ELSE /\ device_mutex[device_count] = Unlocked
            /\ device_manager_add_device(io.mac, io.fd)
            /\ lastOp' = [Op("add", "SUCCESS", 0) EXCEPT !.mac = io.mac]
            /\ UNCHANGED openFds
    /\ manager_mutex' = Unlocked
    /\ io' = IoIdle
    /\ lastNotify' = NotEvaluated
    /\ UNCHANGED <<LockFrame, workers, device_mutex, sweep>>

\* device_manager_remove_device under manager_mutex: the index search, then
\* the record's device_mutex is taken and released, the array compacted, the
\* trigger evaluated and manager_mutex unlocked
LkRemoveDevice ==
    /\ IoRuns
    /\ io.pc = "remove_locked"
    /\ IF IndexOf(io.ptr) = -1
       THEN /\ lastOp' = Op("remove", "ERROR_GENERIC", 0)
            /\ lastNotify' = NotEvaluated
            /\ UNCHANGED <<registry, openFds, device_mutex>>
       ELSE /\ device_mutex[io.ptr] = Unlocked
            /\ device_manager_remove_device(IndexOf(io.ptr))
            /\ \E outcome \in MutexCopies :
                  device_mutex' = compact_mutexes(device_mutex, device_count,
                                                  IndexOf(io.ptr), outcome)
            /\ lastOp' = Op("remove", "SUCCESS", 1)
    /\ manager_mutex' = Unlocked
    /\ io' = IoIdle
    /\ UNCHANGED <<LockFrame, workers, sweep>>

\* where the worker goes after device_manager_check_timeouts and
\* device_manager_print_status: while (manager->running)
WorkerLoops(running) == IF running = 0 THEN Exited ELSE Sleeping

\* sleep() ends in the worker: it leaves when running is 0, else it enters
\* device_manager_check_timeouts and reads the clock
LkWake ==
    /\ workers[heartbeat_thread] = Sleeping
    /\ workers' = [workers EXCEPT ![heartbeat_thread] = AfterWake(manager_running, now)]
    /\ sweep' = IF manager_running = 0 THEN NoSweep
                ELSE [pc |-> "lock", i |-> -1, t |-> now, removed |-> 0]
    /\ lastOp' = NoOp
    /\ lastNotify' = NotEvaluated
    /\ UNCHANGED <<LockFrame, registry, openFds, io, manager_mutex, device_mutex>>

\* pthread_mutex_lock(&manager->manager_mutex) returns in the worker, in
\* device_manager_check_timeouts or in device_manager_print_status
LkSweepLock ==
    /\ sweep.pc \in {"lock", "print"}
    /\ manager_mutex = Unlocked
    /\ manager_mutex' = WorkerThread
    /\ sweep' = IF sweep.pc = "lock"
                THEN [sweep EXCEPT !.pc = "scan", !.i = device_count - 1]
                ELSE [sweep EXCEPT !.pc = "rows", !.i = 0]
    /\ lastOp' = NoOp
    /\ lastNotify' = NotEvaluated
    /\ UNCHANGED <<LockFrame, registry, openFds, io, workers, device_mutex>>

\* pthread_mutex_lock(&device->device_mutex) returns in the scan
LkSweepLockDevice ==
    /\ sweep.pc = "scan"
    /\ sweep.i >= 0
    /\ device_mutex[sweep.i] = Unlocked
    /\ device_mutex' = [device_mutex EXCEPT ![sweep.i] = WorkerThread]
    /\ sweep' = [sweep EXCEPT !.pc = "test"]
    /\ lastOp' = NoOp
    /\ lastNotify' = NotEvaluated
    /\ UNCHANGED <<LockFrame, registry, openFds, io, workers, manager_mutex>>

\* the timeout test on devices[i]: an expired record is captured, closed,
\* unlocked and compacted away; a fresh one is unlocked
LkSweepTest ==
    /\ sweep.pc = "test"
    /\ LET i == sweep.i
           d == devices[i]
       IN IF IsExpired(sweep.t, d.last_heartbeat)
          THEN /\ last_disconnected_token' = CaptureToken(last_disconnected_token, d.fcm_token)
               /\ openFds' = openFds \ ClosedBy(d)
               /\ devices' = compact_device_array(devices, device_count, i)
               /\ device_count' = device_count - 1
               /\ lastRemovedToken' = IF NonEmpty(d.fcm_token) THEN d.fcm_token
                                      ELSE lastRemovedToken
               /\ \E outcome \in MutexCopies :
                     device_mutex' = compact_mutexes([device_mutex EXCEPT ![i] = Unlocked],
                                                     device_count, i, outcome)
               /\ sweep' = [sweep EXCEPT !.pc = "scan", !.i = i - 1,
                                         !.removed = sweep.removed + 1]
          ELSE /\ device_mutex' = [device_mutex EXCEPT ![i] = Unlocked]
               /\ sweep' = [sweep EXCEPT !.pc = "scan", !.i = i - 1]
               /\ UNCHANGED <<registry, openFds>>
    /\ lastOp' = NoOp
    /\ lastNotify' = NotEvaluated
    /\ UNCHANGED <<LockFrame, io, workers, manager_mutex>>

\* the scan is over: check_and_send_notification when records were removed,
\* the unlock, the return of removed_count
LkSweepFinish ==
    /\ sweep.pc = "scan"
    /\ sweep.i < 0
    /\ lastNotify' = IF sweep.removed > 0
                     THEN Evaluate(device_count, last_disconnected_token, boltState)
                     ELSE NotEvaluated
    /\ manager_mutex' = Unlocked
    /\ lastOp' = [Op("check_timeouts", "DONE", sweep.removed) EXCEPT !.t = sweep.t]
    /\ IF sweep.removed > 0
       THEN /\ sweep' = [sweep EXCEPT !.pc = "print"]
            /\ UNCHANGED workers
       ELSE /\ sweep' = NoSweep
            /\ workers' = [workers EXCEPT ![heartbeat_thread] = WorkerLoops(manager_running)]
    /\ UNCHANGED <<LockFrame, registry, openFds, io, device_mutex>>

\* device_manager_print_status: one row under the row's device_mutex, or,
\* after the last row, the unlock of manager_mutex
LkPrintStatus ==
    /\ sweep.pc = "rows"
    /\ IF sweep.i < device_count
       THEN /\ device_mutex[sweep.i] = Unlocked
            /\ sweep' = [sweep EXCEPT !.i = sweep.i + 1]
            /\ UNCHANGED <<manager_mutex, workers>>
       ELSE /\ manager_mutex' = Unlocked
            /\ sweep' = NoSweep
            /\ workers' = [workers EXCEPT ![heartbeat_thread] = WorkerLoops(manager_running)]
    /\ lastOp' = NoOp
    /\ lastNotify' = NotEvaluated
    /\ UNCHANGED <<LockFrame, registry, openFds, io, device_mutex>>

NextLocks ==
    \/ LkAccept
    \/ LkReceive
    \/ LkLockManager
    \/ LkLockDevice
    \/ LkFindByMac
    \/ LkFindBySocket
    \/ LkReconnect
    \/ LkProcessData
    \/ LkHasCapacity
    \/ LkAddDevice
    \/ LkRemoveDevice
    \/ LkWake
    \/ LkSweepLock
    \/ LkSweepLockDevice
    \/ LkSweepTest
    \/ LkSweepFinish
    \/ LkPrintStatus
    \/ Tick

SpecLocks == Init /\ [][NextLocks]_vars

\* ------------------------------------------------- shutdown by SIGINT / SIGTERM
\* The two threads of SpecLocks with the signal handler, which sigaction
\* installs for the whole process (empty mask, no thread blocks the signals):
\* the kernel runs it on the main thread or on the heartbeat worker, between
\* any two steps of the interrupted thread.

\* signal_handler on the heartbeat worker: g_system_running = 0,
\* bluetooth_server_stop, then device_manager_stop_heartbeat, whose
\* pthread_join of the calling thread fails (EDEADLK) and is followed by
\* pthread_cancel of the calling thread
SignalOnWorker ==
    /\ mainPc \notin {"logger", "signals", "exited"}
    /\ workers[heartbeat_thread].pc \in {"sleep", "check"}
    /\ manager_running = 1
    /\ g_system_running' = 0
    /\ server' = StoppedServer(server)
    /\ listenFds' = listenFds \ ClosedByStop(server)
    /\ manager_running' = 0
    /\ lastOp' = Op("signal_handler", "DONE", 0)
    /\ lastNotify' = NotEvaluated
    /\ UNCHANGED <<MainFrame, registry, openFds, boltState, heartbeat_thread, workers,
                   mainPc, exit_code, joining>>

\* the worker has a cancellation request pending: running was cleared without
\* a pthread_join in progress, which only signal_handler on the worker does
CancelPending ==
    /\ manager_running = 0
    /\ ~joining
    /\ workers[heartbeat_thread].pc = "check"

\* the worker is at a cancellation point of its sweep: the log calls and
\* close() of an expired record, or the printf calls of print_status
AtCancellationPoint ==
    \/ sweep.pc = "test" /\ IsExpired(sweep.t, devices[sweep.i].last_heartbeat)
    \/ sweep.pc = "rows"

\* the pending cancellation is acted upon: the worker ends where it is, with
\* the mutexes it holds
WorkerCancelled ==
    /\ mainPc # "exited"
    /\ CancelPending
    /\ AtCancellationPoint
    /\ workers' = [workers EXCEPT ![heartbeat_thread] = Exited]
    /\ sweep' = [sweep EXCEPT !.pc = "cancelled"]
    /\ lastOp' = Op("pthread_cancel", "DONE", 0)
    /\ lastNotify' = NotEvaluated
    /\ UNCHANGED <<LockFrame, registry, openFds, io, manager_mutex, device_mutex>>

\* while (g_system_running) is false, or bluetooth_server_run_once failed on
\* the stopped server: the event loop is left for cleanup_system
LoopExit ==
    /\ IoRuns
    /\ io.pc = "idle"
    /\ g_system_running = 0
    /\ mainPc' = "cleanup"
    /\ lastOp' = Op("loop_exit", "DONE", 0)
    /\ lastNotify' = NotEvaluated
    /\ UNCHANGED <<MainFrame, registry, openFds, server, listenFds, boltState,
                   g_system_running, manager_running, heartbeat_thread, workers,
                   exit_code, joining>>

\* the next step of the main thread inside bluetooth_server_run_once
IoStep ==
    \/ LkLockManager
    \/ LkLockDevice
    \/ LkFindByMac
    \/ LkFindBySocket
    \/ LkReconnect
    \/ LkProcessData
    \/ LkHasCapacity
    \/ LkAddDevice
    \/ LkRemoveDevice

\* the next step of the heartbeat worker, as long as the process exists
SweepStep ==
    /\ mainPc # "exited"
    /\ \/ LkWake
       \/ LkSweepLock
       \/ LkSweepLockDevice
       \/ LkSweepTest
       \/ LkSweepFinish
       \/ LkPrintStatus

NextShutdown ==
    \/ LkAccept
    \/ LkReceive
    \/ IoStep
    \/ SweepStep
    \/ SignalHandler
    \/ SignalOnWorker
    \/ WorkerCancelled
    \/ JoinReturns
    \/ LoopExit
    \/ MainCleanupServer
    \/ MainCleanupHeartbeat
    \/ MainCleanupManager
    \/ MainTick

SpecShutdown == Init /\ [][NextShutdown]_vars

\* every thread is scheduled and a mutex that is free again and again is
\* obtained; the signal and the connections are the environment's
FairSpecShutdown ==
    /\ SpecShutdown
    /\ SF_vars(IoStep)
    /\ SF_vars(SweepStep)
    /\ WF_vars(JoinReturns)
    /\ WF_vars(LoopExit)
    /\ WF_vars(MainCleanupServer)
    /\ WF_vars(MainCleanupHeartbeat)
    /\ WF_vars(MainCleanupManager)

\* ------------------------------------------ the device manager until its cleanup
\* The caller of SpecNotify, with the door unlocked, who ends with
\* device_manager_cleanup; after it the manager's mutexes are destroyed and no
\* function of device_manager.h is called again.

\* the calls made before device_manager_cleanup, and the clock
CleanupCaller ==
    /\ mainPc = "idle"
    /\ \/ ApiAddDevice
       \/ ApiReconnectDevice
       \/ NotifyProcessData
       \/ NotifyRemoveDevice
       \/ NotifyCheckTimeouts
       \/ Tick

\* device_manager_cleanup(manager)
ApiCleanup ==
    /\ mainPc = "idle"
    /\ device_manager_cleanup
    /\ mainPc' = "cleaned"
    /\ lastOp' = Op("cleanup", "DONE", 0)
    /\ UNCHANGED <<maxDevices, now, boltState, io, lastRemovedToken, server, listenFds,
                   g_system_running, heartbeat_thread, workers, exit_code, runPc,
                   delivery, joining, lockState>>

NextCleanup ==
    \/ CleanupCaller
    \/ ApiCleanup

SpecCleanup == InitNotify /\ [][NextCleanup]_vars

\* ===================================================================== claims
Present == 0 .. (device_count - 1)

\* the records currently in the registry, in slot order
PresentSeq(devs, cnt) == [i \in 1 .. cnt |-> devs[i - 1]]

\* device_manager_get_last_token: the token, or NULL when it is empty
NullToken == [id |-> -1, len |-> 0]
device_manager_get_last_token ==
    IF NonEmpty(last_disconnected_token) THEN last_disconnected_token ELSE NullToken

\* C1: whatever connections, reconnections, payloads, disconnects and sweeps
\* happened, no two records in the registry have the same address.
C1_UniqueAddresses ==
    \A i \in Present : \A j \in Present :
        i # j => devices[i].mac_address # devices[j].mac_address

\* a peer that is already tracked connected again while two records are present
C1_Witness ==
    /\ lastOp.op = "reconnect"
    /\ device_count = 2

\* C2: a successful device_manager_add_device leaves exactly one record with
\* the address it was given (a second add of a present address creates no
\* second record).
C2_AddNeverDuplicates ==
    (lastOp.op = "add" /\ lastOp.ret = "SUCCESS") =>
        Cardinality({i \in Present : devices[i].mac_address = lastOp.mac}) = 1

\* C3: device_count never exceeds the capacity, and device_manager_add_device
\* called with device_count = capacity returns no record and leaves the count,
\* the records and last_disconnected_token as they were.
C3_CapacityBound ==
    /\ [](device_count <= maxDevices)
    /\ [][(lastOp'.op = "add" /\ device_count = maxDevices) =>
            /\ lastOp'.ret = "NULL"
            /\ device_count' = device_count
            /\ devices' = devices
            /\ last_disconnected_token' = last_disconnected_token]_vars

\* an add was refused at a full registry
C3_Witness ==
    /\ lastOp.op = "add"
    /\ lastOp.ret = "NULL"
    /\ device_count = maxDevices

C5_ReconnectFrame ==
    [][(io.pc = "reconnect" /\ lastOp'.op = "reconnect" /\ io.ptr \in Present) =>
         /\ devices' = [devices EXCEPT ![io.ptr] =
                           [mac_address |-> devices[io.ptr].mac_address,
                            fcm_token |-> devices[io.ptr].fcm_token,
                            socket_fd |-> io.fd,
                            last_heartbeat |-> now]]
         /\ device_count' = device_count
         /\ last_disconnected_token' = last_disconnected_token]_vars

\* a record that holds a token has just been reconnected
C5_Witness ==
    /\ lastOp.op = "reconnect"
    /\ device_count = 1
    /\ NonEmpty(devices[0].fcm_token)
    /\ devices[0].last_heartbeat = now

\* C6: a sweep with clock value t keeps exactly the records with
\* t - last_heartbeat <= HEARTBEAT_TIMEOUT, in their order, removes all others
\* and returns how many it removed.
C6_SweepExact ==
    [][lastOp'.op = "check_timeouts" =>
         LET t == lastOp'.t
             pre == PresentSeq(devices, device_count)
             Fresh(d) == t - d.last_heartbeat <= HEARTBEAT_TIMEOUT
             kept == SelectSeq(pre, Fresh)
         IN /\ PresentSeq(devices', device_count') = kept
            /\ lastOp'.removed = Len(pre) - Len(kept)]_vars

\* a sweep removed one record and kept another whose age is exactly the timeout
C6_Witness ==
    /\ lastOp.op = "check_timeouts"
    /\ lastOp.removed = 1
    /\ device_count = 1
    /\ lastOp.t - devices[0].last_heartbeat = HEARTBEAT_TIMEOUT

\* C7: a step that removes a record with a non-empty token T makes
\* device_manager_get_last_token return T; every other step (add, reconnect,
\* payload, removal of records with empty tokens) leaves its result unchanged.
C7_TokenCarryOver ==
    [][LET gone == {i \in Present : \A j \in 0 .. (device_count' - 1) :
                        devices'[j].mac_address # devices[i].mac_address}
           withToken == {devices[i].fcm_token : i \in {g \in gone : devices[g].fcm_token.len > 0}}
       IN IF withToken = {}
          THEN device_manager_get_last_token' = device_manager_get_last_token
          ELSE device_manager_get_last_token' \in withToken]_vars

\* a record with a token has just been removed while another record stays, and
\* device_manager_get_last_token returns that token
C7_Witness ==
    /\ lastOp.op = "remove"
    /\ lastOp.removed = 1
    /\ device_count = 1
    /\ lastRemovedToken # NoToken
    /\ device_manager_get_last_token = lastRemovedToken

\* C8 as stated: last_disconnected_token is empty or the token of the latest
\* removed record that had one, and no record in the registry holds it.
C8_NeverTokenOfPresentRecord ==
    /\ last_disconnected_token = NoToken \/ last_disconnected_token = lastRemovedToken
    /\ NonEmpty(last_disconnected_token) =>
          \A i \in Present : devices[i].fcm_token # last_disconnected_token

\* C8 amended: last_disconnected_token is empty or the token that the latest
\* removed record with a non-empty token had when it was removed.
C8_LatestRemovedToken ==
    /\ last_disconnected_token = NoToken \/ last_disconnected_token = lastRemovedToken
    /\ lastRemovedToken # NoToken => last_disconnected_token = lastRemovedToken

\* a second record with a token was removed after a first one
C8_Witness ==
    /\ lastOp.removed > 0
    /\ NonEmpty(last_disconnected_token)
    /\ device_count = 1
    /\ NonEmpty(devices[0].fcm_token)
    /\ devices[0].fcm_token # last_disconnected_token

\* C9: send_door_close_reminder is called only by a trigger evaluation, an
\* evaluation calls it exactly when it finds no device, a non-empty
\* last_disconnected_token and the door UNLOCKED, and the recipient is
\* last_disconnected_token.
C9_TriggerGating ==
    /\ lastNotify.invoked => lastNotify.evaluated
    /\ lastNotify.evaluated =>
          (lastNotify.invoked <=>
              (device_count = 0 /\ last_disconnected_token.len > 0 /\ boltState = "UNLOCKED"))
    /\ lastNotify.invoked => lastNotify.recipient = last_disconnected_token

\* the removal of the last record sent the reminder
C9_Witness ==
    /\ lastOp.removed > 0
    /\ lastNotify.invoked

\* C10: send_door_close_reminder is called only at the end of a removal
\* (device_manager_remove_device or a sweep that removed a record).
C10_OnlyOnRemoval ==
    lastNotify.invoked => lastOp.removed > 0

\* C11: device_manager_remove_device given the Device* of the record that the
\* preceding call removed returns ERROR_GENERIC and changes nothing: the count,
\* the records and last_disconnected_token stay, no socket is closed and the
\* trigger is not evaluated.
C11_DoubleRemovalNotFound ==
    [][(/\ lastOp.op = "remove" /\ lastOp.ret = "SUCCESS"
        /\ lastOp'.op = "remove" /\ lastOp'.ptr = lastOp.ptr) =>
           /\ lastOp'.ret = "ERROR_GENERIC"
           /\ UNCHANGED <<devices, device_count, last_disconnected_token, openFds>>
           /\ ~lastNotify'.evaluated]_vars

\* the record that the I/O thread resolved from its socket is still the record
\* in the slot its Device* points to
StillResolved == io.ptr \in Present /\ devices[io.ptr].socket_fd = io.fd

\* C12: when the sweep removed the record between the lookup by socket of
\* device_manager_handle_disconnect and its device_manager_remove_device, the
\* removal returns ERROR_GENERIC, removes no record and closes no socket.
C12_LoserFailsCleanly ==
    [][(io.pc = "remove" /\ lastOp'.op = "remove" /\ ~StillResolved) =>
           /\ lastOp'.ret = "ERROR_GENERIC"
           /\ UNCHANGED <<devices, device_count, last_disconnected_token, openFds>>]_vars

\* C13: the reconnection in the accept path acts on the record that the lookup
\* by address found: its slot is still in the registry and still holds that
\* address.
C13_ReconnectActsOnLookup ==
    [][(io.pc = "reconnect" /\ lastOp'.op = "reconnect") =>
           /\ io.ptr \in Present
           /\ devices[io.ptr].mac_address = io.mac]_vars

\* the socket of a connection that the accept path has not handed over yet
InAccept == IF io.pc \in {"reconnect", "capacity", "add"} THEN {io.fd} ELSE {}

\* C14: every open client socket that the accept path has handed over is the
\* socket of exactly one record of the registry, and the socket of every
\* record of the registry is open.
C14_HandleOwnership ==
    /\ \A fd \in openFds \ InAccept :
          Cardinality({i \in Present : devices[i].socket_fd = fd}) = 1
    /\ \A i \in Present : devices[i].socket_fd \in openFds

\* the socket belongs to a record of the registry
KnownSocket(fd) == \E i \in Present : devices[i].socket_fd = fd

\* C15: device_manager_process_data returns ERROR_GENERIC exactly when the
\* socket belongs to no record, and then changes no record (token, heartbeat),
\* not device_count and not last_disconnected_token.
C15_UnknownPeer ==
    [][lastOp'.op = "process_data" =>
         /\ (lastOp'.ret = "ERROR_GENERIC") <=> ~KnownSocket(lastOp'.fd)
         /\ ~KnownSocket(lastOp'.fd) =>
               UNCHANGED <<devices, device_count, last_disconnected_token>>]_vars

\* data for a socket of no record arrived while a record with a token is present
C15_Witness ==
    /\ lastOp.op = "process_data"
    /\ lastOp.ret = "ERROR_GENERIC"
    /\ device_count = 1
    /\ NonEmpty(devices[0].fcm_token)

\* C16: device_manager_process_data for the socket of a record sets that
\* record's last_heartbeat to now whatever the payload is; the record's token
\* becomes the payload's token (cut to the token buffer) when the payload
\* carries one of at least MIN_FCM_TOKEN_LENGTH characters and stays otherwise;
\* nothing else changes: no record is removed and no socket is closed.
C16_HeartbeatAlways ==
    [][(lastOp'.op = "process_data" /\ lastOp'.ret = "SUCCESS") =>
         LET p == CHOOSE i \in Present : devices[i].socket_fd = lastOp'.fd
             pl == lastOp'.payload
             valid == pl.kind = "token" /\ pl.token.len >= MIN_FCM_TOKEN_LENGTH
             cut == IF pl.token.len < TOKEN_SIZE THEN pl.token.len ELSE TOKEN_SIZE - 1
         IN /\ KnownSocket(lastOp'.fd)
            /\ devices' = [devices EXCEPT ![p] =
                   [mac_address |-> devices[p].mac_address,
                    socket_fd |-> devices[p].socket_fd,
                    fcm_token |-> IF valid THEN [id |-> pl.token.id, len |-> cut]
                                  ELSE devices[p].fcm_token,
                    last_heartbeat |-> now]]
            /\ UNCHANGED <<device_count, last_disconnected_token, openFds>>]_vars

\* bytes that are not JSON refreshed the heartbeat of a record that keeps the
\* token it had
C16_Witness ==
    /\ lastOp.op = "process_data"
    /\ lastOp.ret = "SUCCESS"
    /\ lastOp.payload.kind = "badjson"
    /\ now > StartTime
    /\ \E i \in Present : /\ devices[i].socket_fd = lastOp.fd
                          /\ devices[i].last_heartbeat = now
                          /\ NonEmpty(devices[i].fcm_token)

\* C17: bluetooth_server_accept_connection takes the reconnection branch
\* exactly when its lookup finds the peer's address in the registry, and the
\* reconnection leaves device_count as it is (also at a full registry);
\* otherwise it goes on to device_manager_add_device when device_count is below
\* the capacity, and the add appends the record of the peer; otherwise it closes
\* the new socket, returns ERROR_CAPACITY_EXCEEDED and leaves the registry as it is.
C17_AcceptRouting ==
    [][/\ (io.pc = "idle" /\ io'.pc \in {"reconnect", "capacity"}) =>
             ((io'.pc = "reconnect") <=>
                 (\E i \in Present : devices[i].mac_address = io'.mac))
       /\ (io.pc = "reconnect" /\ io' # io) =>
             /\ lastOp'.op = "reconnect"
             /\ device_count' = device_count
       /\ (io.pc = "capacity" /\ io' # io) =>
             IF device_count < maxDevices
             THEN /\ io'.pc = "add"
                  /\ UNCHANGED <<devices, device_count, last_disconnected_token, openFds>>
             ELSE /\ io'.pc = "idle"
                  /\ lastOp'.ret = "ERROR_CAPACITY_EXCEEDED"
                  /\ openFds' = openFds \ {io.fd}
                  /\ UNCHANGED <<devices, device_count, last_disconnected_token>>
       /\ (io.pc = "add" /\ io' # io) =>
             /\ lastOp'.op = "add"
             /\ device_count' = device_count + 1
             /\ devices'[device_count].mac_address = io.mac
             /\ devices'[device_count].socket_fd = io.fd
             /\ io.fd \in openFds']_vars

\* a peer that is not tracked was turned away at a full registry whose record
\* holds a token
C17_Witness ==
    /\ lastOp.op = "accept"
    /\ lastOp.ret = "ERROR_CAPACITY_EXCEEDED"
    /\ device_count = maxDevices
    /\ NonEmpty(devices[0].fcm_token)

\* C18: bluetooth_server_run_once on a running server returns 1 and changes
\* nothing when select() times out, reports no error when select() was
\* interrupted or accept() would block, and returns ERROR_NETWORK when accept()
\* failed for another reason than would-block or interruption.
C18_RunOnceResults ==
    [][(lastOp'.op = "run_once" /\ lastOp'.wait # "") =>
         /\ lastOp'.wait = "timeout" =>
               /\ lastOp'.value = 1
               /\ UNCHANGED <<devices, device_count, last_disconnected_token,
                              openFds, server, listenFds>>
         /\ lastOp'.wait = "EINTR" => lastOp'.value >= 0
         /\ (lastOp'.wait = "ready" /\ lastOp'.err = "EAGAIN") => lastOp'.value >= 0
         /\ (lastOp'.wait = "ready" /\ lastOp'.err \notin {"EAGAIN", "EINTR", "none"}) =>
               lastOp'.value = ERROR_NETWORK]_vars

\* C19: bluetooth_server_receive_data returns 0 when recv() read nothing and a
\* negative code when recv() failed, and in both cases leaves the records, the
\* count, last_disconnected_token and the sockets as they are; a read of some
\* bytes returns their number.
C19_ReceiveResults ==
    [][(lastOp'.op = "receive_data" /\ lastOp'.fd >= 0) =>
         /\ lastOp'.bytes = 0 => lastOp'.value = 0
         /\ lastOp'.bytes < 0 => lastOp'.value < 0
         /\ lastOp'.bytes > 0 => lastOp'.value = lastOp'.bytes
         /\ lastOp'.bytes <= 0 =>
               UNCHANGED <<devices, device_count, last_disconnected_token, openFds>>]_vars

\* a read of nothing on the socket of a record that holds a token: the record
\* is still there
C19_Witness ==
    /\ lastOp.op = "receive_data"
    /\ lastOp.bytes = 0
    /\ lastOp.value = 0
    /\ \E i \in Present : /\ devices[i].socket_fd = lastOp.fd
                          /\ NonEmpty(devices[i].fcm_token)

\* C20: bluetooth_server_init_with_config returns ERROR_INVALID_PARAM and
\* leaves the server structure as it is when the psm is below 0x1001, the
\* capacity outside 1..100 or the select timeout outside 1..60; otherwise it
\* succeeds and stores the configuration as given; it never creates a socket.
C20_InvalidConfigRejected ==
    [][lastOp'.op = "init_with_config" =>
         LET c == lastOp'.config
             inside == /\ c.psm >= 4097
                       /\ c.max_devices >= 1 /\ c.max_devices <= 100
                       /\ c.select_timeout_sec >= 1 /\ c.select_timeout_sec <= 60
         IN /\ inside => /\ lastOp'.value = SUCCESS
                         /\ server' = [server_socket |-> -1, config |-> c, running |-> 0]
            /\ ~inside => /\ lastOp'.value = ERROR_INVALID_PARAM
                          /\ server' = server
            /\ listenFds' = listenFds]_vars

\* a capacity of 101 was refused while the server is running with its socket
C20_Witness ==
    /\ lastOp.op = "init_with_config"
    /\ lastOp.value = ERROR_INVALID_PARAM
    /\ lastOp.config.max_devices = 101
    /\ server.running = 1
    /\ server.server_socket \in listenFds

\* C21: an initialised server is running only while server_socket is a
\* listening socket, and a failed bind() or listen() returns
\* ERROR_HARDWARE_INIT and leaves server_socket = -1 and the server not
\* running.
C21_RunningOnlyWhileListening ==
    /\ [](server.config # NoConfig =>
            (server.running = 1 => server.server_socket \in listenFds))
    /\ [][(lastOp'.op \in {"create_socket", "start"} /\ lastOp'.err \in {"bind", "listen"}) =>
            /\ lastOp'.value = ERROR_HARDWARE_INIT
            /\ server'.server_socket = -1
            /\ server'.running = 0]_vars

C23_StartHeartbeatOnce ==
    [][lastOp'.op = "start_heartbeat" =>
         IF LiveWorkers # {}
         THEN /\ lastOp'.value # SUCCESS
              /\ Cardinality(LiveWorkers') <= 1
         ELSE lastOp'.value = SUCCESS => Cardinality(LiveWorkers') = 1]_vars

\* C24: once device_manager_stop_heartbeat has returned, no sweep removes a
\* record (until the sweep is started again).
C24_NoSweepAfterStop ==
    [][(lastOp.op = "stop_heartbeat" /\ lastOp'.op = "check_timeouts") =>
          lastOp'.removed = 0]_vars

C26_LoopSurvivesErrors ==
    /\ [][(runPc \in InLoop /\ runPc' = "returned") =>
            (server.running = 0 \/ lastOp'.wait \notin {"", "EINTR", "timeout", "ready"})]_vars
    /\ [][(lastOp'.op = "run_once" /\ lastOp'.wait = "ready") => runPc' = "test"]_vars
    /\ [][lastOp'.op \in {"receive_data", "handle_disconnect"} => runPc' = runPc]_vars

\* accept() has just failed with ECONNABORTED while the registry is full, and
\* the loop is back at its test with the server running
C26_Witness ==
    /\ lastOp.op = "run_once"
    /\ lastOp.err = "ECONNABORTED"
    /\ runPc = "test"
    /\ server.running = 1
    /\ device_count = maxDevices

\* C27: while the server runs and a thread is in the loop of
\* bluetooth_server_run, the socket of every tracked device is eventually read
\* (bluetooth_server_receive_data, which forwards the bytes and reports a
\* close), or its record is removed.
C27_LoopReadsTrackedDevices ==
    \A fd \in Handles :
        [](server.running = 1 /\ runPc \in InLoop /\ KnownSocket(fd) =>
              <>(\/ lastOp.op = "receive_data" /\ lastOp.fd = fd
                 \/ ~KnownSocket(fd)
                 \/ server.running = 0
                 \/ runPc \notin InLoop))

\* a record with address a whose last heartbeat is h
TrackedSince(a, h) ==
    \E i \in Present : devices[i].mac_address = a /\ devices[i].last_heartbeat = h

C29_StartupOrder ==
    /\ [][mainPc' # mainPc =>
            /\ (mainPc = "requirements" =>
                    mainPc' = IF lastOp'.value = SUCCESS THEN "door" ELSE "cleanup")
            /\ (mainPc = "door" =>
                    mainPc' = IF lastOp'.value = SUCCESS THEN "manager" ELSE "cleanup")
            /\ (mainPc = "manager" =>
                    mainPc' = IF lastOp'.value = SUCCESS THEN "server" ELSE "cleanup")
            /\ (mainPc = "server" =>
                    mainPc' = IF lastOp'.value = SUCCESS THEN "loop" ELSE "cleanup")
            /\ (mainPc \in {"requirements", "door", "manager", "server"} =>
                    IF lastOp'.value = SUCCESS THEN exit_code' = exit_code
                                               ELSE exit_code' # 0)
            /\ (mainPc' = "loop" =>
                    mainPc = "server" /\ exit_code' = 0 /\ server'.running = 1)
            /\ (mainPc \in {"cleanup", "cleanup_heartbeat", "cleanup_manager"} =>
                    mainPc' \in {"cleanup_heartbeat", "cleanup_manager", "exited"})]_vars
    /\ [][exit_code' # exit_code =>
            /\ mainPc \in {"logger", "signals", "requirements", "door", "manager", "server"}
            /\ lastOp'.value # SUCCESS
            /\ exit_code = 0]_vars
    /\ [](mainPc \in {"logger", "signals", "requirements", "door", "manager"} =>
            LiveWorkers = {} /\ manager_running = 0 /\ heartbeat_thread = NULL)
    /\ [](mainPc \in {"logger", "signals", "requirements", "door", "manager", "server"} =>
            server.running = 0 /\ listenFds = {} /\ openFds = {})
    /\ [](exit_code \in {ERROR_PRIVILEGES, ERROR_HARDWARE_INIT} =>
            /\ LiveWorkers = {} /\ heartbeat_thread = NULL
            /\ server.running = 0 /\ listenFds = {})
    /\ [](mainPc = "exited" /\ lastOp.op = "main" => lastOp.value = exit_code)
    /\ <>[](exit_code = 0 \/ mainPc = "exited")

\* the door sensor step failed and main() has returned ERROR_HARDWARE_INIT; no
\* sweep thread was created and no socket was opened
C29_Witness ==
    /\ mainPc = "exited"
    /\ lastOp.op = "main"
    /\ lastOp.value = ERROR_HARDWARE_INIT
    /\ heartbeat_thread = NULL
    /\ listenFds = {}

\* C30: a disconnect reported for a handle that no tracked record holds
\* leaves device_count, every record and last_disconnected_token as they
\* were, closes nothing and does not evaluate the notification trigger; a
\* disconnect for a handle that a record holds removes that record and no
\* other, the way device_manager_remove_device does: the handle is closed,
\* the records behind it move up one slot, the freed slot is cleared, the
\* record's token (if it has one) becomes last_disconnected_token, and the
\* trigger is evaluated.
C30_DisconnectResolvesHandle ==
    [][lastOp'.op = "handle_disconnect" =>
          LET fd == lastOp'.fd
              hits == {i \in 0 .. (device_count - 1) : devices[i].socket_fd = fd}
          IN IF hits = {}
             THEN /\ UNCHANGED <<devices, device_count, last_disconnected_token, openFds>>
                  /\ lastNotify' = NotEvaluated
                  /\ lastOp'.removed = 0
             ELSE LET p == CHOOSE i \in hits : \A j \in hits : i <= j
                  IN /\ device_count' = device_count - 1
                     /\ \A i \in DOMAIN devices :
                           devices'[i] = IF i < p THEN devices[i]
                                         ELSE IF i < device_count - 1 THEN devices[i + 1]
                                         ELSE IF i = device_count - 1 THEN ClearedDevice
                                         ELSE devices[i]
                     /\ openFds' = openFds \ {fd}
                     /\ last_disconnected_token' =
                           IF devices[p].fcm_token # NoToken THEN devices[p].fcm_token
                           ELSE last_disconnected_token
                     /\ lastNotify'.evaluated
                     /\ lastOp'.removed = 1]_vars

\* two records were tracked, a disconnect arrived for the handle of the second
\* one, and the first is still tracked under its own handle
C30_Witness ==
    /\ lastOp.op = "handle_disconnect"
    /\ lastOp.removed = 1
    /\ device_count = 1
    /\ devices[0].socket_fd > 0
    /\ devices[0].socket_fd < lastOp.fd
    /\ lastOp.fd \notin openFds

\* C31: a successful device_manager_add_device writes, into the slot at the
\* old device_count, a record with the given address, the given socket,
\* last_heartbeat = now and an empty token; device_count grows by exactly
\* one and no other slot changes.  The slot may have held a record with a
\* token that was removed before.
C31_AddedRecord ==
    [][(lastOp'.op = "add" /\ lastOp'.ret = "SUCCESS") =>
          /\ device_count' = device_count + 1
          /\ devices'[device_count].mac_address = lastOp'.mac
          /\ devices'[device_count].socket_fd = LowestFree(openFds)
          /\ devices'[device_count].socket_fd \in openFds'
          /\ devices'[device_count].last_heartbeat = now
          /\ devices'[device_count].fcm_token = NoToken
          /\ \A i \in Slots \ {device_count} : devices'[i] = devices[i]
          /\ last_disconnected_token' = last_disconnected_token]_vars

\* the only slot of a one-record registry held a record with a token, that
\* record was removed, and a later add has just filled the slot again
C31_Witness ==
    /\ maxDevices = 1
    /\ lastOp.op = "add"
    /\ lastOp.ret = "SUCCESS"
    /\ lastRemovedToken # NoToken
    /\ now > StartTime
    /\ device_count = 1
    /\ devices[0].fcm_token = NoToken
    /\ devices[0].last_heartbeat = now

\* the elements of seq at the positions in keep, in their order
RECURSIVE KeepAt(_, _)
KeepAt(seq, keep) ==
    IF seq = <<>> THEN <<>>
    ELSE LET front == KeepAt(SubSeq(seq, 1, Len(seq) - 1), keep)
         IN IF Len(seq) \in keep THEN Append(front, seq[Len(seq)]) ELSE front

\* C32: a removal, by device_manager_remove_device or by a sweep, leaves
\* every surviving record with its address, socket, token and heartbeat and
\* leaves the survivors in their order; device_count drops by the number of
\* records removed, one for an explicit removal, and an explicit removal takes
\* out the record it was given.
C32_SurvivorsKept ==
    [][lastOp'.op \in {"remove", "check_timeouts"} =>
          LET pre == PresentSeq(devices, device_count)
              post == PresentSeq(devices', device_count')
              n == lastOp'.removed
          IN /\ device_count' = device_count - n
             /\ \E keep \in SUBSET (1 .. Len(pre)) :
                   /\ Cardinality(keep) = Len(pre) - n
                   /\ post = KeepAt(pre, keep)
             /\ (lastOp'.op = "remove" =>
                   /\ n = IF lastOp'.ret = "SUCCESS" THEN 1 ELSE 0
                   /\ post = KeepAt(pre, (1 .. Len(pre)) \ {lastOp'.ptr + 1}))]_vars

\* the middle one of three records has just been removed; the two survivors,
\* which differ in address, socket, token and heartbeat, are in slots 0 and 1
C32_Witness ==
    /\ lastOp.op \in {"remove", "check_timeouts"}
    /\ lastOp.removed = 1
    /\ device_count = 2
    /\ devices[0].socket_fd = 1
    /\ devices[1].socket_fd = 3
    /\ devices[0].mac_address # devices[1].mac_address
    /\ devices[0].fcm_token # devices[1].fcm_token
    /\ devices[0].last_heartbeat # devices[1].last_heartbeat

\* C33: one call of device_manager_check_timeouts removes every record whose
\* heartbeat is older than HEARTBEAT_TIMEOUT at the clock value the call read,
\* so none of them is left after it; it returns the number of such records,
\* which is the decrease of device_count; when there is none it returns 0,
\* changes no record, no token and no socket, and evaluates no trigger.
C33_SweepRemovesAllExpired ==
    [][lastOp'.op = "check_timeouts" =>
          LET t == lastOp'.t
              expired == {i \in Present : t - devices[i].last_heartbeat > HEARTBEAT_TIMEOUT}
          IN /\ lastOp'.removed = Cardinality(expired)
             /\ device_count' = device_count - lastOp'.removed
             /\ \A j \in 0 .. (device_count' - 1) :
                   t - devices'[j].last_heartbeat <= HEARTBEAT_TIMEOUT
             /\ openFds' = openFds \ {devices[i].socket_fd : i \in expired}
             /\ (expired = {} =>
                   /\ UNCHANGED <<devices, device_count, last_disconnected_token, openFds>>
                   /\ lastNotify' = NotEvaluated)]_vars

\* one sweep has removed the first and the third of three records, both
\* expired, and kept the second, whose heartbeat was fresh
C33_Witness ==
    /\ lastOp.op = "check_timeouts"
    /\ lastOp.removed = 2
    /\ device_count = 1
    /\ devices[0].socket_fd = 2
    /\ devices[0].last_heartbeat = lastOp.t
    /\ openFds = {2}

\* the accessors of device_manager.h
Accessors == {"find_by_socket", "find_by_mac", "get_count", "has_capacity",
              "has_devices", "get_last_token"}

\* C34: the accessors change no record, not device_count, not
\* last_disconnected_token and no socket; device_manager_has_capacity is true
\* exactly when device_count is below the build's MAX_DEVICES,
\* device_manager_has_devices exactly when device_count > 0,
\* device_manager_get_count returns device_count, and a lookup returns the
\* first record below device_count that has the key, or NULL when no record
\* below device_count has it.
C34_AccessorsReadOnly ==
    [][lastOp'.op \in Accessors =>
          /\ UNCHANGED <<devices, device_count, last_disconnected_token, openFds>>
          /\ (lastOp'.op = "has_capacity" =>
                 (lastOp'.value # 0 <=> device_count < maxDevices))
          /\ (lastOp'.op = "has_devices" => (lastOp'.value # 0 <=> device_count > 0))
          /\ (lastOp'.op = "get_count" => lastOp'.value = device_count)
          /\ (lastOp'.op = "get_last_token" =>
                 (lastOp'.value # 0 <=> last_disconnected_token # NoToken))
          /\ (lastOp'.op = "find_by_socket" =>
                 LET hits == {i \in Present : devices[i].socket_fd = lastOp'.fd}
                 IN IF hits = {} \/ lastOp'.fd <= 0 THEN lastOp'.ptr = NULL
                    ELSE lastOp'.ptr \in hits /\ \A j \in hits : lastOp'.ptr <= j)
          /\ (lastOp'.op = "find_by_mac" =>
                 LET hits == {i \in Present : devices[i].mac_address = lastOp'.mac}
                 IN IF hits = {} THEN lastOp'.ptr = NULL
                    ELSE lastOp'.ptr \in hits /\ \A j \in hits : lastOp'.ptr <= j)]_vars

\* the registry is empty after a record with a token was removed, and
\* device_manager_has_devices has just returned 0
C34_Witness ==
    /\ lastOp.op = "has_devices"
    /\ lastOp.value = 0
    /\ device_count = 0
    /\ last_disconnected_token # NoToken

\* C35: when device_manager_process_data stores a payload's token and
\* refreshes a heartbeat, the record it writes to is in the registry and owns
\* the socket the payload arrived on, also when a sweep or a disconnect
\* removed records between the lookup by socket and the update.
C35_PayloadReachesOwner ==
    [][(lastOp'.op = "process_data" /\ lastOp'.ret = "SUCCESS") =>
          /\ io.ptr \in Present
          /\ devices[io.ptr].socket_fd = io.fd
          /\ \A i \in Slots \ {io.ptr} : devices'[i] = devices[i]]_vars

\* C36: every record below device_count has a socket > 0 and a non-empty
\* address, and every slot at or above device_count is as init_device leaves
\* it: socket -1, empty address, empty token.
C36_SlotsWellFormed ==
    /\ \A i \in Present : devices[i].socket_fd > 0 /\ devices[i].mac_address # ""
    /\ \A i \in Slots \ Present :
          /\ devices[i].socket_fd = -1
          /\ devices[i].mac_address = ""
          /\ devices[i].fcm_token = NoToken

\* mutexes by name: manager_mutex, and the device_mutex of a slot
ManagerMutex == <<"manager", 0>>
DeviceMutex(i) == <<"device", i>>

\* the mutexes a thread is inside the critical section of
IoHolds ==
    (IF io.pc \in {Locked(pc) : pc \in ManagerEntry} THEN {ManagerMutex} ELSE {})
    \cup (IF io.pc \in {Locked(pc) : pc \in DeviceEntry} THEN {DeviceMutex(io.ptr)} ELSE {})
WorkerHolds ==
    (IF sweep.pc \in {"scan", "test", "rows"} THEN {ManagerMutex} ELSE {})
    \cup (IF sweep.pc = "test" THEN {DeviceMutex(sweep.i)} ELSE {})

\* the mutex a thread is waiting for in pthread_mutex_lock, if any
IoWaitsFor ==
    IF io.pc \in ManagerEntry
    THEN (IF manager_mutex # Unlocked THEN {ManagerMutex} ELSE {})
    ELSE IF io.pc \in DeviceEntry
    THEN (IF device_mutex[io.ptr] # Unlocked THEN {DeviceMutex(io.ptr)} ELSE {})
    ELSE IF io.pc = "add_locked" /\ ~AddFails(io.fd)
    THEN (IF device_mutex[device_count] # Unlocked THEN {DeviceMutex(device_count)} ELSE {})
    ELSE IF io.pc = "remove_locked" /\ IndexOf(io.ptr) # -1
    THEN (IF device_mutex[io.ptr] # Unlocked THEN {DeviceMutex(io.ptr)} ELSE {})
    ELSE {}
WorkerWaitsFor ==
    IF sweep.pc \in {"lock", "print"}
    THEN (IF manager_mutex # Unlocked THEN {ManagerMutex} ELSE {})
    ELSE IF sweep.pc = "scan" /\ sweep.i >= 0
    THEN (IF device_mutex[sweep.i] # Unlocked THEN {DeviceMutex(sweep.i)} ELSE {})
    ELSE IF sweep.pc = "rows" /\ sweep.i < device_count
    THEN (IF device_mutex[sweep.i] # Unlocked THEN {DeviceMutex(sweep.i)} ELSE {})
    ELSE {}

\* a thread waits for a mutex that the other thread is not going to unlock:
\* the other thread is not inside its critical section, or waits itself
Deadlocked ==
    \/ IoWaitsFor # {} /\ (IoWaitsFor \cap WorkerHolds = {} \/ WorkerWaitsFor # {})
    \/ WorkerWaitsFor # {} /\ (WorkerWaitsFor \cap IoHolds = {} \/ IoWaitsFor # {})

\* C37: the I/O thread and the heartbeat worker never deadlock on
\* manager_mutex and the device mutexes: no thread asks for manager_mutex
\* while it is inside a device_mutex critical section, a thread inside both
\* took manager_mutex first, and no thread waits for a mutex that will never
\* be unlocked.
C37_NoLockDeadlock ==
    /\ [](io.pc \in ManagerEntry => IoHolds = {})
    /\ [](sweep.pc \in {"lock", "print"} => WorkerHolds = {})
    /\ [][/\ (manager_mutex' = IoThread /\ manager_mutex # IoThread => IoHolds = {})
          /\ (manager_mutex' = WorkerThread /\ manager_mutex # WorkerThread =>
                 WorkerHolds = {})]_vars
    /\ [](~Deadlocked)

\* C38: signal-driven shutdown always completes: once the handler has cleared
\* g_system_running, its stop of the server and its join of the sweep thread
\* return, the event loop exits and cleanup_system runs to the end of main(),
\* whichever thread the signal interrupts and whatever lock that thread holds
C38_ShutdownCompletes == []<>(g_system_running = 1 \/ mainPc = "exited")

\* C39: when one call of device_manager_check_timeouts evicts several records
\* with non-empty tokens, last_disconnected_token ends as the token of the
\* evicted record in the lowest slot, and the trigger is evaluated once, after
\* the scan, on the final count and token: at most one reminder is sent, to
\* that token
C39_SweepKeepsLowestToken ==
    [][LET expired == {i \in Present : IsExpired(lastOp'.t, devices[i].last_heartbeat)}
           withToken == {i \in expired : NonEmpty(devices[i].fcm_token)}
           lowest == CHOOSE i \in withToken : \A j \in withToken : i <= j
       IN (lastOp'.op = "check_timeouts" /\ Cardinality(withToken) >= 2) =>
             /\ lastOp'.removed = Cardinality(expired)
             /\ last_disconnected_token' = devices[lowest].fcm_token
             /\ lastNotify'.evaluated
             /\ lastNotify'.invoked <=>
                   (device_count - Cardinality(expired) = 0 /\ boltState = "UNLOCKED")
             /\ lastNotify'.invoked => lastNotify'.recipient = devices[lowest].fcm_token]_vars

\* one sweep has just evicted two records with different non-empty tokens
\* while the door was unlocked: the token kept is the one evicted last, from
\* slot 0, and the one reminder went to it
C39_Witness ==
    /\ lastOp.op = "check_timeouts"
    /\ lastOp.removed = 2
    /\ Len(lastOp.evicted) = 2
    /\ NonEmpty(lastOp.evicted[1])
    /\ NonEmpty(lastOp.evicted[2])
    /\ lastOp.evicted[1] # lastOp.evicted[2]
    /\ last_disconnected_token = lastOp.evicted[2]
    /\ lastNotify = Sent(lastOp.evicted[2])

\* C40: device_manager_cleanup closes the socket of every record (and every
\* socket > 0 found in a slot of the array), leaves device_count at 0, leaves
\* last_disconnected_token as it was whatever tokens the records hold, and
\* neither evaluates the trigger nor calls send_door_close_reminder
C40_CleanupFrame ==
    [][lastOp'.op = "cleanup" =>
         /\ \A i \in Present : devices[i].socket_fd \notin openFds'
         /\ \A i \in Slots : devices'[i].socket_fd <= 0
         /\ openFds' = {}
         /\ device_count' = 0
         /\ last_disconnected_token' = last_disconnected_token
         /\ lastNotify' = NotEvaluated
         /\ delivery' = delivery]_vars

\* device_manager_cleanup has just run on a registry of two connected records,
\* one of them with a token, while the door was unlocked and no token had been
\* saved: both sockets are closed, no token is saved, the trigger was not
\* evaluated
C40_Witness ==
    /\ lastOp.op = "cleanup"
    /\ device_count = 0
    /\ devices[0].mac_address # ""
    /\ maxDevices = 2
    /\ devices[1].mac_address # ""
    /\ NonEmpty(devices[0].fcm_token)
    /\ devices[0].socket_fd = -1
    /\ devices[1].socket_fd = -1
    /\ openFds = {}
    /\ boltState = "UNLOCKED"
    /\ last_disconnected_token = NoToken
    /\ lastNotify = NotEvaluated

====
